---- MODULE Spec2Model ----
(***************************************************************************)
(* Partner fraud detector: the three detection algorithms of               *)
(* api/algorithms (bonus abuse, opposite trading, mirror trading) as       *)
(* operators over an input snapshot, and one state machine per detector    *)
(* that runs it on a snapshot drawn from a bounded set.                    *)
(*                                                                         *)
(* A Python dict is a function whose DOMAIN is the set of keys present;    *)
(* d.get(k, dflt) is Get(d, k, dflt); d[k] on an absent key raises         *)
(* KeyError.  A call that raises yields the record Raise(..), a call that  *)
(* returns a list yields Returned(list), a call that returns a dict yields *)
(* the dict.  Numbers are exact rationals kept as scaled integers (the     *)
(* scale is named where it is used).                                       *)
(***************************************************************************)
EXTENDS Integers, Sequences, FiniteSets, TLC

VARIABLES clients, partners, now, runs

vars == <<clients, partners, now, runs>>

(***************************************************************************)
(* Python primitives                                                       *)
(***************************************************************************)
Get(d, k, dflt) == IF k \in DOMAIN d THEN d[k] ELSE dflt

Has(d, k) == k \in DOMAIN d

Raise(what) == [exception |-> what]

\* a returned list (a returned dict is the record itself)
Returned(list) == [returned |-> list]

IsRaised(r) == "exception" \in DOMAIN r

Max(a, b) == IF a >= b THEN a ELSE b

Min(a, b) == IF a <= b THEN a ELSE b

Abs(a) == IF a < 0 THEN -a ELSE a

\* sum(f(x) for x in seq), f given as the sequence of its values
Sum(vals) ==
    LET RECURSIVE SumOver(_)
        SumOver(i) == IF i > Len(vals) THEN 0 ELSE vals[i] + SumOver(i + 1)
    IN  SumOver(1)

\* round(n/d, k) as an integer number of 10^-k units, given n already scaled
\* by 10^k: round-half-even of n/d for d > 0 (Python's round on an exactly
\* representable tie; no other tie occurs for the denominators used here).
RoundHalfEven(n, d) ==
    LET q == n \div d
        r == n % d
    IN  IF 2 * r < d THEN q
        ELSE IF 2 * r > d THEN q + 1
        ELSE IF q % 2 = 0 THEN q ELSE q + 1

\* list.sort(key=...), keys[i] the key of s[i]: every index is inserted into
\* the order after the indexes whose key is <= its own (the sort is stable;
\* order is ascending by key, so those indexes are a prefix)
SortAsc(s, keys) ==
    LET InsertAsc(order, x) ==
            LET before == Cardinality({i \in 1..Len(order) : keys[order[i]] <= keys[x]})
            IN  SubSeq(order, 1, before) \o <<x>> \o SubSeq(order, before + 1, Len(order))
        RECURSIVE SortAscFrom(_, _)
        SortAscFrom(i, order) ==
            IF Len(order) >= Len(keys) THEN order
            ELSE SortAscFrom(i + 1, InsertAsc(order, i))
        order == SortAscFrom(1, <<>>)
    IN  [k \in 1..Len(s) |-> s[order[k]]]

\* list.sort(key=..., reverse=True): descending, equal keys keep their order
SortDesc(s, keys) == SortAsc(s, [i \in 1..Len(keys) |-> -keys[i]])

(***************************************************************************)
(* bonus_abuse.py                                                          *)
(*                                                                         *)
(* A date is [kind, t]: kind "naive" or "aware" for a parseable ISO string *)
(* without or with a UTC offset, "bad" for a non-empty string that does    *)
(* not parse; t counts half days, so that timedelta.days is a floor.       *)
(***************************************************************************)
HalfDaysPerDay == 2

\* bonus_abuse.parse_timestamp: any parse failure yields datetime.now()
bonus_parse_timestamp(ts, clock) ==
    IF ts.kind = "bad" THEN [kind |-> "naive", t |-> clock] ELSE ts

\* (withdrawal - signup).days; subtracting naive and aware datetimes raises
days_between(withdrawal, signup) ==
    IF withdrawal.kind # signup.kind THEN Raise("TypeError")
    ELSE [days |-> (withdrawal.t - signup.t) \div HalfDaysPerDay]

Deduct(st, penalty, flag) ==
    [score |-> st.score - penalty, flags |-> Append(st.flags, flag)]

\* the bands of Check 1 applied one after the other instead of as alternatives
CheckTradeCount_cumulative(st, num_trades) ==
    LET a == IF num_trades = 0 THEN Deduct(st, 40, "no_trading_activity") ELSE st
        b == IF num_trades < 5 THEN Deduct(a, 25, "minimal_trading") ELSE a
    IN  IF num_trades < 10 THEN Deduct(b, 10, "low_trading_volume") ELSE b

\* Check 1: number of trades
CheckTradeCount(st, num_trades) ==
    IF num_trades = 0 THEN Deduct(st, 40, "no_trading_activity")
    ELSE IF num_trades < 5 THEN Deduct(st, 25, "minimal_trading")
    ELSE IF num_trades < 10 THEN Deduct(st, 10, "low_trading_volume")
    ELSE st

\* Check 2: trading volume relative to deposit
CheckVolumeRatio(st, trades, deposit) ==
    IF Len(trades) > 0 /\ deposit > 0
    THEN LET total_volume == Sum([i \in 1..Len(trades) |-> Get(trades[i], "volume", 0)])
         IN  IF 10 * total_volume < deposit      \* volume_ratio < 0.1
             THEN Deduct(st, 20, "very_low_volume_ratio")
             ELSE IF 2 * total_volume < deposit  \* volume_ratio < 0.5
             THEN Deduct(st, 10, "low_volume_ratio")
             ELSE st
    ELSE st

\* Check 3: quick withdrawal; whatever is raised inside is swallowed
CheckWithdrawal(st, client, clock) ==
    IF Has(client, "withdrawal_date") /\ Has(client, "signup_date")
    THEN LET signup == bonus_parse_timestamp(client["signup_date"], clock)
             withdrawal == bonus_parse_timestamp(client["withdrawal_date"], clock)
             d == days_between(withdrawal, signup)
         IN  IF IsRaised(d) THEN st
             ELSE IF d.days <= 3 THEN Deduct(st, 30, "immediate_withdrawal")
             ELSE IF d.days <= 7 THEN Deduct(st, 15, "quick_withdrawal")
             ELSE st
    ELSE st

\* Check 4: balance vs deposit
CheckBalanceRatio(st, balance, deposit) ==
    IF deposit > 0
    THEN IF 5 * balance < deposit                \* balance_ratio < 0.2
         THEN Deduct(st, 15, "most_funds_withdrawn")
         ELSE IF 2 * balance < deposit           \* balance_ratio < 0.5
         THEN Deduct(st, 5, "significant_withdrawal")
         ELSE st
    ELSE st

\* Check 5: account activity status
CheckActive(st, is_active) ==
    IF ~is_active THEN Deduct(st, 10, "inactive_account") ELSE st

\* Check 6: small initial deposit
CheckDeposit(st, deposit) ==
    IF deposit < 200 THEN Deduct(st, 10, "minimal_deposit") ELSE st

ClampScore_none(score) == score

\* "quality_score": max(0, score)
ClampScore(score) == Max(0, score)

\* suspicious below 70
IsSuspiciousScore_below70(score) == score < 70

\* "is_suspicious": score < 50
IsSuspiciousScore(score) == score < 50

\* the returned dict
quality_result(client, st, trades, deposit, balance, is_active) ==
    IF ~Has(client, "client_id") THEN Raise("KeyError")
    ELSE [client_id |-> client["client_id"],
          quality_score |-> ClampScore(st.score),
          is_suspicious |-> IsSuspiciousScore(st.score),
          flags |-> st.flags,
          metrics |-> [num_trades |-> Len(trades),
                       initial_deposit |-> deposit,
                       current_balance |-> balance,
                       is_active |-> is_active]]

\* checks 1 to 6 in order, from score 100 and no flag
quality_checks(client, clock, trades, deposit, balance, is_active) ==
    CheckDeposit(
        CheckActive(
            CheckBalanceRatio(
                CheckWithdrawal(
                    CheckVolumeRatio(
                        CheckTradeCount([score |-> 100, flags |-> <<>>], Len(trades)),
                        trades, deposit),
                    client, clock),
                balance, deposit),
            is_active),
        deposit)

quality_of(client, clock, trades, deposit, balance, is_active) ==
    quality_result(client, quality_checks(client, clock, trades, deposit, balance, is_active),
                   trades, deposit, balance, is_active)

calculate_client_quality_score(client, clock) ==
    quality_of(client, clock,
               Get(client, "trades", <<>>),
               Get(client, "initial_deposit", 0),
               Get(client, "current_balance", 0),
               Get(client, "is_active", TRUE))

InFlags(flags, f) == \E i \in 1..Len(flags) : flags[i] = f

\* "parts if parts else fallback"
evidence_or_fallback(parts) ==
    IF parts # <<>> THEN parts ELSE <<"Multiple low-quality indicators detected.">>

\* the evidence string, as the sequence of its sentences
generate_abuse_evidence(client, quality) ==
    evidence_or_fallback(
        (IF InFlags(quality.flags, "no_trading_activity")
            THEN <<"No trading activity recorded after signup.">>
         ELSE IF InFlags(quality.flags, "minimal_trading") THEN <<"Only N trades executed.">>
         ELSE <<>>)
        \o (IF InFlags(quality.flags, "immediate_withdrawal")
               THEN <<"Funds withdrawn within 3 days of deposit.">>
            ELSE IF InFlags(quality.flags, "quick_withdrawal")
               THEN <<"Funds withdrawn within first week.">>
            ELSE <<>>)
        \o (IF InFlags(quality.flags, "most_funds_withdrawn")
               THEN <<"P% of deposited funds withdrawn.">> ELSE <<>>)
        \o (IF InFlags(quality.flags, "minimal_deposit")
               THEN <<"Small initial deposit: $D.">> ELSE <<>>)
        \o (IF InFlags(quality.flags, "inactive_account")
               THEN <<"Account is now inactive.">> ELSE <<>>))

\* the entry appended to suspicious_clients
suspicious_client_entry(client, quality) ==
    [client_id |-> client["client_id"],
     client_name |-> Get(client, "name", "Unknown"),
     partner_id |-> client["referred_by"],
     quality_score |-> quality.quality_score,
     flags |-> quality.flags,
     metrics |-> quality.metrics,
     evidence_summary |-> generate_abuse_evidence(client, quality)]

\* the body of the loop over clients, given the client's quality: the list
\* after the iteration, or the exception it raises
bonus_pattern_body(acc, client, quality) ==
    IF IsRaised(quality) THEN quality
    ELSE IF ~quality.is_suspicious THEN acc
    ELSE IF ~Has(client, "referred_by") THEN Raise("KeyError")
    ELSE Returned(Append(acc.returned, suspicious_client_entry(client, quality)))

RECURSIVE bonus_pattern_loop(_, _, _, _)
\* the loop over clients from the i-th on; acc is Returned(suspicious_clients)
\* so far or the exception that ended the loop
bonus_pattern_loop(cs, clock, i, acc) ==
    IF IsRaised(acc) \/ i > Len(cs) THEN acc
    ELSE bonus_pattern_loop(cs, clock, i + 1,
             bonus_pattern_body(acc, cs[i], calculate_client_quality_score(cs[i], clock)))

\* the suspicious clients left in input order
sort_by_quality_skipped(found) == found

\* suspicious_clients.sort(key=quality_score)
sort_by_quality(found) ==
    IF IsRaised(found) THEN found
    ELSE Returned(SortAsc(found.returned,
                          [i \in 1..Len(found.returned) |-> found.returned[i].quality_score]))

detect_bonus_abuse_pattern(cs, clock) == sort_by_quality(bonus_pattern_loop(cs, clock, 1, Returned(<<>>)))

\* the clients whose referred_by is partner_id, in input order (partner_clients[partner_id])
referred_to(cs, partner_id) == SelectSeq(cs, LAMBDA c : c["referred_by"] = partner_id)

\* the evidence string of a partner, as the sequence of its sentences
generate_partner_evidence(partner, cs, suspicious_count, conversion_rate) ==
    <<"Partner has T referrals with S flagged as suspicious.",
      "Client conversion rate: R (below 25% is concerning).">>
    \* inactive_count / total > 0.5
    \o (IF 2 * Cardinality({i \in 1..Len(cs) : ~Get(cs[i], "is_active", TRUE)}) > Len(cs)
        THEN <<"I/T referred clients are now inactive.">> ELSE <<>>)
    \* avg_deposit < 300
    \o (IF Sum([i \in 1..Len(cs) |-> Get(cs[i], "initial_deposit", 0)]) < 300 * Len(cs)
        THEN <<"Average deposit $A is suspiciously low.">> ELSE <<>>)

\* suspicious_count / n > 0.3 or avg_quality < 50 or conversion_rate < 0.25
partner_is_suspicious_ge(suspicious_count, quality_sum, active_count, n) ==
    \/ 10 * suspicious_count >= 3 * n
    \/ quality_sum < 50 * n
    \/ 4 * active_count < n

partner_is_suspicious(suspicious_count, quality_sum, active_count, n) ==
    \/ 10 * suspicious_count > 3 * n
    \/ quality_sum < 50 * n
    \/ 4 * active_count < n

\* the entry appended to partner_analysis.  Ratios rounded to 3 places are in
\* 1/1000, avg_client_quality in 1/10, estimated_fraud_value in cents.
partner_entry(partner, referred, scores, suspicious_count, quality_sum, active_count) ==
    [partner_id |-> partner["partner_id"],
     partner_name |-> Get(partner, "name", "Unknown"),
     partner_type |-> Get(partner, "type", "unknown"),
     total_referrals |-> Len(referred),
     suspicious_referrals |-> suspicious_count,
     suspicious_ratio |-> RoundHalfEven(1000 * suspicious_count, Len(referred)),
     avg_client_quality |-> RoundHalfEven(10 * quality_sum, Len(referred)),
     conversion_rate |-> RoundHalfEven(1000 * active_count, Len(referred)),
     estimated_fraud_value |->
         15 * Sum([i \in 1..Len(referred) |->
                      IF scores[i].is_suspicious THEN Get(referred[i], "initial_deposit", 0) ELSE 0]),
     evidence_summary |->
         generate_partner_evidence(partner, referred, suspicious_count,
                                   [num |-> active_count, den |-> Len(referred)])]

\* the partner's statistics decide whether it is appended
partner_decision(partner, referred, scores, suspicious_count, quality_sum, active_count) ==
    IF partner_is_suspicious(suspicious_count, quality_sum, active_count, Len(referred))
    THEN Returned(<<partner_entry(partner, referred, scores, suspicious_count, quality_sum, active_count)>>)
    ELSE Returned(<<>>)

\* quality_scores of the referred clients, then the statistics
partner_statistics(partner, referred, scores) ==
    IF \E i \in 1..Len(scores) : IsRaised(scores[i]) THEN Raise("KeyError")
    ELSE partner_decision(partner, referred, scores,
             Cardinality({i \in 1..Len(scores) : scores[i].is_suspicious}),
             Sum([i \in 1..Len(scores) |-> scores[i].quality_score]),
             Cardinality({i \in 1..Len(referred) : Get(referred[i], "is_active", FALSE)}))

\* the body of the loop over partners, given the partner's referred clients
analyze_referred(partner, referred, clock) ==
    IF Len(referred) = 0 THEN Returned(<<>>)
    ELSE partner_statistics(partner, referred,
             [i \in 1..Len(referred) |-> calculate_client_quality_score(referred[i], clock)])

\* one iteration of the loop over partners: what it appends to partner_analysis
\* (nothing when the partner is skipped or not suspicious)
analyze_one_partner(partner, cs, clock) ==
    IF ~Has(partner, "partner_id") THEN Raise("KeyError")
    ELSE analyze_referred(partner, referred_to(cs, partner["partner_id"]), clock)

\* the body of the loop over partners: partner_analysis after the iteration,
\* or the exception it raises
partner_loop_body(acc, one) ==
    IF IsRaised(one) THEN one
    ELSE Returned(acc.returned \o one.returned)

RECURSIVE partner_loop(_, _, _, _, _)
\* the loop over partners from the i-th on; acc is Returned(partner_analysis)
\* so far or the exception that ended the loop
partner_loop(ps, cs, clock, i, acc) ==
    IF IsRaised(acc) \/ i > Len(ps) THEN acc
    ELSE partner_loop(ps, cs, clock, i + 1,
             partner_loop_body(acc, analyze_one_partner(ps[i], cs, clock)))

\* partner_analysis.sort(key=suspicious_ratio, reverse=True)
sort_by_ratio(found) ==
    IF IsRaised(found) THEN found
    ELSE Returned(SortDesc(found.returned,
                           [i \in 1..Len(found.returned) |-> found.returned[i].suspicious_ratio]))

analyze_partner_referral_quality(ps, cs, clock) ==
    IF \E i \in 1..Len(cs) : ~Has(cs[i], "referred_by") THEN Raise("KeyError")
    ELSE sort_by_ratio(partner_loop(ps, cs, clock, 1, Returned(<<>>)))

\* suspicious_clients[:50]
TopClients == 50

Head_n(s, n) == SubSeq(s, 1, Min(n, Len(s)))

\* the returned report
bonus_report(pattern, analysis) ==
    IF IsRaised(pattern) THEN pattern
    ELSE IF IsRaised(analysis) THEN analysis
    ELSE [total_suspicious_clients |-> Len(pattern.returned),
          total_suspicious_partners |-> Len(analysis.returned),
          total_estimated_fraud_value |->
              Sum([i \in 1..Len(analysis.returned) |-> analysis.returned[i].estimated_fraud_value]),
          suspicious_clients |-> Head_n(pattern.returned, TopClients),
          suspicious_partners |-> analysis.returned]

detect_bonus_abuse(cs, ps, clock) ==
    bonus_report(detect_bonus_abuse_pattern(cs, clock),
                 analyze_partner_referral_quality(ps, cs, clock))

(***************************************************************************)
(* Exact arithmetic for the scores of opposite_trading.py.  A correlation  *)
(* N / sqrt(D) is kept as [num |-> N, den2 |-> D], a ratio n / d as        *)
(* [num |-> n, den |-> d]; a value rounded to 3 places is an integer       *)
(* number of thousandths.                                                  *)
(***************************************************************************)
RECURSIVE GeqFrac(_, _, _, _)
\* a/b >= c/d for a, c >= 0 and b, d > 0, by the continued-fraction expansion
GeqFrac(a, b, c, d) ==
    IF a \div b # c \div d THEN a \div b > c \div d
    ELSE IF c % d = 0 THEN TRUE
    ELSE IF a % b = 0 THEN FALSE
    ELSE GeqFrac(d, c % d, b, a % b)

\* floor(math.sqrt(x)) for 0 <= x < 2^31, by bisection
ISqrt(x) ==
    LET RECURSIVE ISqrtIn(_, _)
        ISqrtIn(lo, hi) ==
            IF lo >= hi THEN lo
            ELSE IF ((lo + hi + 1) \div 2) * ((lo + hi + 1) \div 2) <= x
                 THEN ISqrtIn((lo + hi + 1) \div 2, hi)
                 ELSE ISqrtIn(lo, ((lo + hi + 1) \div 2) - 1)
    IN  ISqrtIn(0, Min(x, 46340))

IsSquare(x) == ISqrt(x) * ISqrt(x) = x

\* p / sqrt(D) >= q for p >= 0, D > 0
SqrtGeq(p, D, q) ==
    IF q <= 0 THEN TRUE
    ELSE IF p = 0 THEN FALSE
    ELSE GeqFrac(p, q, D * q, p)

(***************************************************************************)
(* opposite_trading.py                                                     *)
(*                                                                         *)
(* A trade's timestamp is [kind, t] with t in minutes; profit_loss counts  *)
(* hundreds.                                                               *)
(***************************************************************************)
\* parse_timestamp of opposite_trading.py and mirror_trading.py: a string that
\* does not parse raises ValueError
parse_timestamp(ts) == IF ts.kind = "bad" THEN Raise("ValueError") ELSE ts

Fine == [fine |-> TRUE]

RECURSIVE first_fault(_, _, _)
\* reading t[keys[1]], t[keys[2]], ... in order (the timestamp is parsed when
\* read): the first exception raised, or Fine
first_fault(t, keys, i) ==
    IF i > Len(keys) THEN Fine
    ELSE IF ~Has(t, keys[i]) THEN Raise("KeyError")
    ELSE IF keys[i] = "timestamp" /\ IsRaised(parse_timestamp(t["timestamp"]))
         THEN parse_timestamp(t["timestamp"])
    ELSE first_fault(t, keys, i + 1)

\* abs((t1_time - t2_time).total_seconds()) / 60
minutes_apart(t1, t2) == Abs(t1["timestamp"].t - t2["timestamp"].t)

\* every comparison within the window counts 1, however far apart
timing_compare_unweighted(acc, t1, t2, window) ==
    IF t1["instrument"] # t2["instrument"] THEN acc
    ELSE IF minutes_apart(t1, t2) > window
         THEN [total |-> acc.total + 1, correlations |-> acc.correlations]
    ELSE [total |-> acc.total + 1, correlations |-> acc.correlations + window]

\* one comparison of the inner loop; correlations is kept multiplied by window
timing_compare(acc, t1, t2, window) ==
    IF t1["instrument"] # t2["instrument"] THEN acc
    ELSE IF minutes_apart(t1, t2) > window
         THEN [total |-> acc.total + 1, correlations |-> acc.correlations]
    ELSE IF window = 0 THEN Raise("ZeroDivisionError")
    ELSE [total |-> acc.total + 1,
          correlations |-> acc.correlations + (window - minutes_apart(t1, t2))]

RECURSIVE timing_inner(_, _, _, _, _)
timing_inner(t1, trades2, window, j, acc) ==
    IF IsRaised(acc) \/ j > Len(trades2) THEN acc
    ELSE IF IsRaised(first_fault(trades2[j], <<"timestamp", "instrument">>, 1))
         THEN first_fault(trades2[j], <<"timestamp", "instrument">>, 1)
    ELSE timing_inner(t1, trades2, window, j + 1, timing_compare(acc, t1, trades2[j], window))

RECURSIVE timing_outer(_, _, _, _, _)
timing_outer(trades1, trades2, window, i, acc) ==
    IF IsRaised(acc) \/ i > Len(trades1) THEN acc
    ELSE IF IsRaised(first_fault(trades1[i], <<"timestamp", "instrument">>, 1))
         THEN first_fault(trades1[i], <<"timestamp", "instrument">>, 1)
    ELSE timing_outer(trades1, trades2, window, i + 1,
                      timing_inner(trades1[i], trades2, window, 1, acc))

\* min(1.0, correlations / total_comparisons)
timing_result(acc, window) ==
    IF IsRaised(acc) THEN acc
    ELSE IF acc.total = 0 THEN [num |-> 0, den |-> 1]
    ELSE IF acc.correlations > window * acc.total THEN [num |-> 1, den |-> 1]
    ELSE [num |-> acc.correlations, den |-> window * acc.total]

calculate_timing_correlation(trades1, trades2, window) ==
    IF Len(trades1) = 0 \/ Len(trades2) = 0 THEN [num |-> 0, den |-> 1]
    ELSE timing_result(timing_outer(trades1, trades2, window, 1,
                                    [total |-> 0, correlations |-> 0]), window)

\* the dict appended to opposite_pairs
opposite_pair(t1, t2) ==
    IF ~Has(t1, "volume") \/ ~Has(t2, "volume") THEN Raise("KeyError")
    ELSE IF Max(t1["volume"], t2["volume"]) = 0 THEN Raise("ZeroDivisionError")
    ELSE [trade1 |-> t1, trade2 |-> t2, instrument |-> t1["instrument"],
          time_diff_seconds |-> 60 * minutes_apart(t1, t2),
          volume_similarity |-> [num |-> Min(t1["volume"], t2["volume"]),
                                 den |-> Max(t1["volume"], t2["volume"])]]

is_opposite(t1, t2, window) ==
    /\ t1["instrument"] = t2["instrument"]
    /\ t1["direction"] # t2["direction"]
    /\ minutes_apart(t1, t2) <= window

append_pair(acc, pair) == IF IsRaised(pair) THEN pair ELSE Returned(Append(acc.returned, pair))

RECURSIVE opposite_inner(_, _, _, _, _)
opposite_inner(t1, trades2, window, j, acc) ==
    IF IsRaised(acc) \/ j > Len(trades2) THEN acc
    ELSE IF IsRaised(first_fault(trades2[j], <<"timestamp", "instrument", "direction">>, 1))
         THEN first_fault(trades2[j], <<"timestamp", "instrument", "direction">>, 1)
    ELSE IF is_opposite(t1, trades2[j], window)
         THEN opposite_inner(t1, trades2, window, j + 1,
                             append_pair(acc, opposite_pair(t1, trades2[j])))
    ELSE opposite_inner(t1, trades2, window, j + 1, acc)

RECURSIVE opposite_outer(_, _, _, _, _)
opposite_outer(trades1, trades2, window, i, acc) ==
    IF IsRaised(acc) \/ i > Len(trades1) THEN acc
    ELSE IF IsRaised(first_fault(trades1[i], <<"timestamp", "instrument", "direction">>, 1))
         THEN first_fault(trades1[i], <<"timestamp", "instrument", "direction">>, 1)
    ELSE opposite_outer(trades1, trades2, window, i + 1,
                        opposite_inner(trades1[i], trades2, window, 1, acc))

detect_opposite_directions(trades1, trades2, window) ==
    opposite_outer(trades1, trades2, window, 1, Returned(<<>>))

\* Pearson correlation of pnl1 and pnl2 (equal lengths n), numerator and
\* variances multiplied by n: (n Sab - Sa Sb) / sqrt((n Saa - Sa^2)(n Sbb - Sb^2))
pearson(n, Sa, Sb, Sab, Saa, Sbb) ==
    IF (n * Saa - Sa * Sa) * (n * Sbb - Sb * Sb) = 0 THEN [num |-> 0, den2 |-> 1]
    ELSE [num |-> n * Sab - Sa * Sb, den2 |-> (n * Saa - Sa * Sa) * (n * Sbb - Sb * Sb)]

pearson_of(pnl1, pnl2) ==
    pearson(Len(pnl1), Sum(pnl1), Sum(pnl2),
            Sum([i \in 1..Len(pnl1) |-> pnl1[i] * pnl2[i]]),
            Sum([i \in 1..Len(pnl1) |-> pnl1[i] * pnl1[i]]),
            Sum([i \in 1..Len(pnl2) |-> pnl2[i] * pnl2[i]]))

calculate_pnl_correlation(trades1, trades2) ==
    IF Len(trades1) < 2 \/ Len(trades2) < 2 THEN [num |-> 0, den2 |-> 1]
    ELSE pearson_of([i \in 1..Min(Len(trades1), Len(trades2)) |-> Get(trades1[i], "profit_loss", 0)],
                    [i \in 1..Min(Len(trades1), Len(trades2)) |-> Get(trades2[i], "profit_loss", 0)])

TimeWindowMinutes == 10

Threshold == 600

\* the pairs divided by the longer list
opposite_ratio_of_max(num_pairs, trades1, trades2) ==
    IF Max(Len(trades1), Len(trades2)) > 0
    THEN [num |-> num_pairs, den |-> Max(Len(trades1), Len(trades2))]
    ELSE [num |-> 0, den |-> 1]

\* len(opposite_pairs) / min(len(trades1), len(trades2)), 0 when the minimum is 0
opposite_ratio_of(num_pairs, trades1, trades2) ==
    IF Min(Len(trades1), Len(trades2)) > 0
    THEN [num |-> num_pairs, den |-> Min(Len(trades1), Len(trades2))]
    ELSE [num |-> 0, den |-> 1]

\* 1000 * (timing_corr * 0.3 + opposite_ratio * 0.4) as a ratio
rational_part(tc, ratio) ==
    [num |-> 300 * tc.num * ratio.den + 400 * ratio.num * tc.den, den |-> tc.den * ratio.den]

\* max(0, -pnl_corr), as [num, den2]
inverse_part(pc) == [num |-> Max(0, -pc.num), den2 |-> pc.den2]

\* suspicion_score >= threshold, threshold in thousandths
score_reaches(rat, inv, threshold) ==
    SqrtGeq(300 * inv.num * rat.den, inv.den2, threshold * rat.den - rat.num)

\* round(suspicion_score, 3) when pnl_corr is irrational: floor(Q + s) for
\* Q = rat + 1/2 and s = 300 * inv.num / sqrt(inv.den2)
round_irrational(qn, qd, inv) ==
    (qn \div qd) + ISqrt((90000 * inv.num * inv.num) \div inv.den2)
    + (IF SqrtGeq(300 * inv.num * qd, inv.den2,
                  (ISqrt((90000 * inv.num * inv.num) \div inv.den2) + 1) * qd - (qn % qd))
       THEN 1 ELSE 0)

\* round(suspicion_score, 3), of the exact value: where the exact value lies
\* halfway between two thousandths the float may fall on either side
round_score(rat, inv) ==
    IF inv.num = 0 THEN RoundHalfEven(rat.num, rat.den)
    ELSE IF IsSquare(inv.den2)
         THEN RoundHalfEven(rat.num * ISqrt(inv.den2) + 300 * inv.num * rat.den,
                            rat.den * ISqrt(inv.den2))
    ELSE round_irrational(2 * rat.num + rat.den, 2 * rat.den, inv)

\* round(x, 3) for x = n / sqrt(D), n >= 0
round_root(n, D) ==
    IF IsSquare(D) THEN RoundHalfEven(1000 * n, ISqrt(D))
    ELSE (ISqrt((4000000 * n * n) \div D) + 1) \div 2

\* round(pnl_corr, 3)
round_correlation(pc) ==
    IF pc.num >= 0 THEN round_root(pc.num, pc.den2) ELSE -round_root(-pc.num, pc.den2)

\* the evidence string: its sentences, and the instruments it joins from a set
generate_evidence_summary(client1, client2, opposite_pairs, timing_corr, pnl_corr) ==
    [sentences |->
        <<"Detected N coordinated opposite trades between A and B.">>
        \o (IF 10 * timing_corr.num > 7 * timing_corr.den
               THEN <<"Trading timing is highly correlated (T).">>
            ELSE IF 10 * timing_corr.num > 4 * timing_corr.den
               THEN <<"Trading timing shows moderate correlation (T).">>
            ELSE <<>>)
        \* pnl_corr < -0.5, of the exact value
        \o (IF pnl_corr.num < 0 /\ 4 * pnl_corr.num * pnl_corr.num > pnl_corr.den2
               THEN <<"Profit/loss shows inverse correlation (P), consistent with profit-splitting scheme.">>
            ELSE <<>>)
        \o (IF Len(opposite_pairs) > 0 THEN <<"Opposite trades concentrated in: I.">> ELSE <<>>),
     instruments |-> {opposite_pairs[k].instrument : k \in 1..Len(opposite_pairs)}]

pnl_total(trades) == Sum([i \in 1..Len(trades) |-> Get(trades[i], "profit_loss", 0)])

\* the finding appended for a pair that reaches the threshold; profit_loss
\* counts hundreds, estimated_fraud_value is in units
opposite_finding(client1, client2, trades1, trades2, pairs, tc, pc) ==
    IF \E i \in 1..Len(trades1) : ~Has(trades1[i], "volume") THEN Raise("KeyError")
    ELSE IF \E i \in 1..Len(trades2) : ~Has(trades2[i], "volume") THEN Raise("KeyError")
    ELSE IF ~Has(client1, "client_id") \/ ~Has(client2, "client_id") THEN Raise("KeyError")
    ELSE Returned(<<
        [scheme_type |-> "opposite_trading",
         partner_a |-> client1["referred_by"],
         partner_b |-> client2["referred_by"],
         client_a |-> client1["client_id"],
         client_b |-> client2["client_id"],
         client_a_name |-> Get(client1, "name", "Unknown"),
         client_b_name |-> Get(client2, "name", "Unknown"),
         confidence_score |->
             round_score(rational_part(tc, opposite_ratio_of(Len(pairs), trades1, trades2)),
                         inverse_part(pc)),
         timing_correlation |-> RoundHalfEven(1000 * tc.num, tc.den),
         opposite_trade_ratio |->
             RoundHalfEven(1000 * Len(pairs), Min(Len(trades1), Len(trades2))),
         pnl_correlation |-> round_correlation(pc),
         num_opposite_pairs |-> Len(pairs),
         total_trades_analyzed |-> Len(trades1) + Len(trades2),
         estimated_fraud_value |-> 50 * (Abs(pnl_total(trades1)) + Abs(pnl_total(trades2))),
         evidence_summary |-> generate_evidence_summary(client1, client2, pairs, tc, pc),
         top_opposite_pairs |-> Head_n(pairs, 5)] >>)

\* the body of the innermost loop once the three measures are known
pair_scored(client1, client2, trades1, trades2, tc, pairs, pc, threshold) ==
    IF IsRaised(tc) THEN tc
    ELSE IF IsRaised(pairs) THEN pairs
    ELSE IF score_reaches(rational_part(tc, opposite_ratio_of(Len(pairs.returned), trades1, trades2)),
                          inverse_part(pc), threshold)
         THEN opposite_finding(client1, client2, trades1, trades2, pairs.returned, tc, pc)
    ELSE Returned(<<>>)

pair_of_trades(client1, client2, trades1, trades2, threshold) ==
    IF Len(trades1) = 0 \/ Len(trades2) = 0 THEN Returned(<<>>)
    ELSE pair_scored(client1, client2, trades1, trades2,
                     calculate_timing_correlation(trades1, trades2, TimeWindowMinutes),
                     detect_opposite_directions(trades1, trades2, TimeWindowMinutes),
                     calculate_pnl_correlation(trades1, trades2), threshold)

pair_findings(client1, client2, threshold) ==
    pair_of_trades(client1, client2, Get(client1, "trades", <<>>),
                   Get(client2, "trades", <<>>), threshold)

RECURSIVE partner_order(_, _, _)
\* the keys of partner_clients, in the order the grouping loop inserts them
partner_order(cs, i, seen) ==
    IF i > Len(cs) THEN seen
    ELSE IF \E k \in 1..Len(seen) : seen[k] = cs[i]["referred_by"]
         THEN partner_order(cs, i + 1, seen)
    ELSE partner_order(cs, i + 1, Append(seen, cs[i]["referred_by"]))

\* every two clients are compared, whoever referred them
comparison_order_any_partner(cs) ==
    SelectSeq([k \in 1..(Len(cs) * Len(cs)) |->
                  <<((k - 1) \div Len(cs)) + 1, ((k - 1) % Len(cs)) + 1>>],
              LAMBDA xy : xy[1] < xy[2])

\* the client pairs the four nested loops visit, in the order they visit them:
\* partner1 before partner2 among the keys, then client1, then client2
comparison_order(cs) ==
    LET n == Len(cs)
        keys == partner_order(cs, 1, <<>>)
        \* the position of each client's partner among the keys of partner_clients
        rank == [i \in 1..n |-> CHOOSE k \in 1..Len(keys) : keys[k] = cs[i]["referred_by"]]
        all_index_pairs == [k \in 1..(n * n) |-> <<((k - 1) \div n) + 1, ((k - 1) % n) + 1>>]
        cross_pairs == SelectSeq(all_index_pairs, LAMBDA xy : rank[xy[1]] < rank[xy[2]])
        loop_key(xy) == ((rank[xy[1]] * (n + 1) + rank[xy[2]]) * (n + 1) + xy[1]) * (n + 1) + xy[2]
    IN  SortAsc(cross_pairs, [k \in 1..Len(cross_pairs) |-> loop_key(cross_pairs[k])])

extend_findings(acc, more) ==
    IF IsRaised(more) THEN more ELSE Returned(acc.returned \o more.returned)

RECURSIVE opposite_loop(_, _, _, _, _)
opposite_loop(cs, order, threshold, k, acc) ==
    IF IsRaised(acc) \/ k > Len(order) THEN acc
    ELSE opposite_loop(cs, order, threshold, k + 1,
                       extend_findings(acc, pair_findings(cs[order[k][1]], cs[order[k][2]], threshold)))

\* the findings left in the order the loops appended them
sort_by_confidence_skipped(findings) == findings

\* findings.sort(key=lambda x: x["confidence_score"], reverse=True)
sort_by_confidence(findings) ==
    IF IsRaised(findings) THEN findings
    ELSE Returned(SortDesc(findings.returned,
                           [k \in 1..Len(findings.returned) |-> findings.returned[k].confidence_score]))

detect_opposite_trading(cs, threshold) ==
    IF \E i \in 1..Len(cs) : ~Has(cs[i], "referred_by") THEN Raise("KeyError")
    ELSE sort_by_confidence(opposite_loop(cs, comparison_order(cs), threshold, 1, Returned(<<>>)))

(***************************************************************************)
(* mirror_trading.py                                                       *)
(*                                                                         *)
(* A similarity is a ratio [num, den]; a trade's timestamp counts minutes. *)
(***************************************************************************)
\* what calculate_trade_similarity raises, in the order it reads the trades
similarity_fault(trade1, trade2, window) ==
    IF ~Has(trade1, "instrument") \/ ~Has(trade2, "instrument") THEN Raise("KeyError")
    ELSE IF ~Has(trade1, "direction") \/ ~Has(trade2, "direction") THEN Raise("KeyError")
    ELSE IF ~Has(trade1, "volume") \/ ~Has(trade2, "volume") THEN Raise("KeyError")
    ELSE IF Max(trade1["volume"], trade2["volume"]) = 0 THEN Raise("ZeroDivisionError")
    ELSE IF IsRaised(first_fault(trade1, <<"timestamp">>, 1))
         THEN first_fault(trade1, <<"timestamp">>, 1)
    ELSE IF IsRaised(first_fault(trade2, <<"timestamp">>, 1))
         THEN first_fault(trade2, <<"timestamp">>, 1)
    ELSE IF window = 0 /\ minutes_apart(trade1, trade2) = 0 THEN Raise("ZeroDivisionError")
    ELSE Fine

\* vol_ratio >= 0.8 scores 1, >= 0.5 scores 0.5; in halves of unit
volume_score(v1, v2, unit) ==
    IF 5 * Min(v1, v2) >= 4 * Max(v1, v2) THEN 2 * unit
    ELSE IF 2 * Min(v1, v2) >= Max(v1, v2) THEN unit
    ELSE 0

\* the timing component counted outside the window too
similarity_score_unguarded(trade1, trade2, window, unit) ==
    (IF trade1["instrument"] = trade2["instrument"] THEN 2 * unit ELSE 0)
    + (IF trade1["direction"] = trade2["direction"] THEN 2 * unit ELSE 0)
    + volume_score(trade1["volume"], trade2["volume"], unit)
    + 2 * (unit - minutes_apart(trade1, trade2))

\* the four components of the score, multiplied by 2 * unit (unit = window)
similarity_score(trade1, trade2, window, unit) ==
    (IF trade1["instrument"] = trade2["instrument"] THEN 2 * unit ELSE 0)
    + (IF trade1["direction"] = trade2["direction"] THEN 2 * unit ELSE 0)
    + volume_score(trade1["volume"], trade2["volume"], unit)
    + (IF minutes_apart(trade1, trade2) <= window
       THEN 2 * (unit - minutes_apart(trade1, trade2)) ELSE 0)

\* both trades carry every field the function reads and nothing raises
reads_cleanly(trade1, trade2, window) ==
    /\ {"instrument", "direction", "volume", "timestamp"} \subseteq DOMAIN trade1
    /\ {"instrument", "direction", "volume", "timestamp"} \subseteq DOMAIN trade2
    /\ trade1["timestamp"].kind # "bad" /\ trade2["timestamp"].kind # "bad"
    /\ Max(trade1["volume"], trade2["volume"]) # 0
    /\ window # 0

\* score / max_score
calculate_trade_similarity(trade1, trade2, window) ==
    IF reads_cleanly(trade1, trade2, window)
    THEN [num |-> similarity_score(trade1, trade2, window, window), den |-> 8 * window]
    ELSE IF IsRaised(similarity_fault(trade1, trade2, window))
    THEN similarity_fault(trade1, trade2, window)
    ELSE [num |-> similarity_score(trade1, trade2, window, Max(window, 1)),
          den |-> 8 * Max(window, 1)]

\* a similarity equal to the best so far replaces it
better_match_or_equal(best, idx, similarity) ==
    IF IsRaised(similarity) THEN similarity
    ELSE IF similarity.num * best.similarity.den >= best.similarity.num * similarity.den
         THEN [similarity |-> similarity, idx |-> idx]
    ELSE best

\* if similarity > best_similarity: the new best match
better_match(best, idx, similarity) ==
    IF IsRaised(similarity) THEN similarity
    ELSE IF similarity.num * best.similarity.den > best.similarity.num * similarity.den
         THEN [similarity |-> similarity, idx |-> idx]
    ELSE best

RECURSIVE best_match_loop(_, _, _, _, _, _)
\* the inner loop over trades2; idx 0 stands for best_idx = -1
best_match_loop(t1, trades2, used, window, idx, best) ==
    IF IsRaised(best) \/ idx > Len(trades2) THEN best
    ELSE IF idx \in used THEN best_match_loop(t1, trades2, used, window, idx + 1, best)
    ELSE best_match_loop(t1, trades2, used, window, idx + 1,
                         better_match(best, idx, calculate_trade_similarity(t1, trades2[idx], window)))

take_match(acc, t1, trades2, best) ==
    IF IsRaised(best) THEN best
    ELSE IF best.idx = 0 THEN acc
    ELSE [matches |-> Append(acc.matches,
                             [trade1 |-> t1, trade2 |-> trades2[best.idx],
                              similarity |-> best.similarity,
                              instrument |-> t1["instrument"], direction |-> t1["direction"]]),
          used |-> acc.used \cup {best.idx}]

RECURSIVE match_loop(_, _, _, _, _, _)
match_loop(trades1, trades2, window, min_similarity, i, acc) ==
    IF IsRaised(acc) \/ i > Len(trades1) THEN acc
    ELSE match_loop(trades1, trades2, window, min_similarity, i + 1,
                    take_match(acc, trades1[i], trades2,
                               best_match_loop(trades1[i], trades2, acc.used, window, 1,
                                               [similarity |-> min_similarity, idx |-> 0])))

find_matching_trades(trades1, trades2, window, min_similarity) ==
    LET acc == match_loop(trades1, trades2, window, min_similarity, 1,
                          [matches |-> <<>>, used |-> {}])
    IN  IF IsRaised(acc) THEN acc ELSE Returned(acc.matches)

MirrorWindowMinutes == 5

MinSimilarity == [num |-> 7, den |-> 10]

MinTrades == 10

MinGroupSize == 3

MinMirrorRatio == [num |-> 1, den |-> 2]

\* len(matches) / min(len(trades1), len(trades2)), 0 when the minimum is 0
match_ratio(matches, trades1, trades2) ==
    IF IsRaised(matches) THEN matches
    ELSE IF Min(Len(trades1), Len(trades2)) > 0
         THEN [num |-> Len(matches.returned), den |-> Min(Len(trades1), Len(trades2))]
    ELSE [num |-> 0, den |-> 1]

client_trades(c) == Get(c, "trades", <<>>)

\* the cell computed for clients i < j of a partner's list
matrix_cell(c1, c2) ==
    match_ratio(find_matching_trades(client_trades(c1), client_trades(c2),
                                     MirrorWindowMinutes, MinSimilarity),
                client_trades(c1), client_trades(c2))

RECURSIVE cells_from(_, _, _)
\* the cells of the n x n matrix from position k on, rows first: computed above
\* the diagonal in the order of the loops, 0.0 elsewhere
cells_from(list, k, cells) ==
    IF k > Len(list) * Len(list) THEN cells
    ELSE cells_from(list, k + 1,
                    Append(cells,
                           IF (k - 1) \div Len(list) < (k - 1) % Len(list)
                           THEN matrix_cell(list[((k - 1) \div Len(list)) + 1],
                                            list[((k - 1) % Len(list)) + 1])
                           ELSE [num |-> 0, den |-> 1]))

\* similarity_matrix[i][j] = similarity_matrix[j][i] = match_ratio, 0.0 on the diagonal
similarity_matrix(n, cells) ==
    [i \in 1..n |-> [j \in 1..n |-> cells[(Min(i, j) - 1) * n + Max(i, j)]]]

RECURSIVE first_raised(_, _)
first_raised(cells, k) ==
    IF k > Len(cells) THEN Fine
    ELSE IF IsRaised(cells[k]) THEN cells[k]
    ELSE first_raised(cells, k + 1)

\* is j similar to the first member of the cluster only
is_similar_to_first(matrix, j, cluster, ratio) ==
    matrix[j][cluster[1]].num * ratio.den >= ratio.num * matrix[j][cluster[1]].den

\* all(similarity_matrix[j][k] >= min_mirror_ratio for k in cluster)
is_similar(matrix, j, cluster, ratio) ==
    \A m \in 1..Len(cluster) :
        matrix[j][cluster[m]].num * ratio.den >= ratio.num * matrix[j][cluster[m]].den

RECURSIVE grow_cluster(_, _, _, _, _, _)
grow_cluster(matrix, ratio, clustered, cluster, j, n) ==
    IF j > n THEN cluster
    ELSE IF j \notin clustered /\ is_similar(matrix, j, cluster, ratio)
         THEN grow_cluster(matrix, ratio, clustered, Append(cluster, j), j + 1, n)
    ELSE grow_cluster(matrix, ratio, clustered, cluster, j + 1, n)

RECURSIVE GCD(_, _)
GCD(a, b) == IF b = 0 THEN a ELSE GCD(b, a % b)

\* the sum of two ratios, in lowest terms
AddRatio(a, b) ==
    LET n == a.num * b.den + b.num * a.den
        d == a.den * b.den
    IN  [num |-> n \div GCD(n, d), den |-> d \div GCD(n, d)]

RECURSIVE SumRatios(_, _, _)
SumRatios(s, k, acc) == IF k > Len(s) THEN acc ELSE SumRatios(s, k + 1, AddRatio(acc, s[k]))

\* the cells summed for the confidence: cluster[i], cluster[j] for i < j
cluster_cells(matrix, cluster) ==
    [k \in 1..(Len(cluster) * Len(cluster)) |->
        IF ((k - 1) \div Len(cluster)) < ((k - 1) % Len(cluster))
        THEN matrix[cluster[((k - 1) \div Len(cluster)) + 1]][cluster[((k - 1) % Len(cluster)) + 1]]
        ELSE [num |-> 0, den |-> 1]]

\* the mean cut to 3 places instead of rounded
mean_truncated(total, size) ==
    (2000 * total.num) \div (total.den * Max(2, size * (size - 1)))

\* round(sum / max(1, len * (len - 1) / 2), 3), in thousandths, of the exact
\* value; len * (len - 1) / 2 is kept doubled
mean_rounded(total, size) ==
    RoundHalfEven(2000 * total.num, total.den * Max(2, size * (size - 1)))

RECURSIVE concat_trades(_, _)
\* all_trades
concat_trades(cluster_clients, k) ==
    IF k > Len(cluster_clients) THEN <<>>
    ELSE client_trades(cluster_clients[k]) \o concat_trades(cluster_clients, k + 1)

RECURSIVE distinct_instruments(_, _, _)
\* the keys of instrument_counts, in the order they are inserted
distinct_instruments(trades, k, seen) ==
    IF k > Len(trades) THEN seen
    ELSE IF \E m \in 1..Len(seen) : seen[m] = trades[k]["instrument"]
         THEN distinct_instruments(trades, k + 1, seen)
    ELSE distinct_instruments(trades, k + 1, Append(seen, trades[k]["instrument"]))

\* sorted(instrument_counts.items(), key=lambda x: -x[1])[:3], the instruments
top_instruments_of(trades) ==
    LET instruments == distinct_instruments(trades, 1, <<>>)
    IN  Head_n(SortDesc(instruments,
                        [m \in 1..Len(instruments) |->
                            Cardinality({k \in 1..Len(trades) :
                                            trades[k]["instrument"] = instruments[m]})]), 3)

\* the evidence string as its sentences, or the TypeError of comparing dates
\* with and without an offset.  signup_dates holds the dates that parse
\* (c.get("signup_date", "") does not); date_range is max - min in half-days.
generate_mirror_evidence(cluster_clients, top_instruments) ==
    LET signup_dates ==
            SelectSeq([k \in 1..Len(cluster_clients) |->
                          Get(cluster_clients[k], "signup_date", [kind |-> "bad", t |-> 0])],
                      LAMBDA ts : ts.kind # "bad")
        times == {signup_dates[k].t : k \in 1..Len(signup_dates)}
        date_range == (CHOOSE x \in times : \A y \in times : y <= x)
                      - (CHOOSE x \in times : \A y \in times : y >= x)
    IN  IF Len(signup_dates) >= 2
           /\ \E k \in 1..Len(signup_dates) : signup_dates[k].kind # signup_dates[1].kind
        THEN Raise("TypeError")
        ELSE [sentences |->
                <<"Detected N accounts trading in lockstep under same partner.",
                  "Combined T trades analyzed.">>
                \o (IF Len(top_instruments) > 0 THEN <<"Concentrated trading in: I.">> ELSE <<>>)
                \o (IF Len(signup_dates) >= 2 /\ date_range \div HalfDaysPerDay <= 7
                    THEN <<"All accounts signed up within D days.">> ELSE <<>>),
              instruments |-> top_instruments]

\* the dict appended to groups; profit_loss counts hundreds, the value units
mirror_group(partner_id, cluster_clients, all_trades, confidence, evidence) ==
    IF \E k \in 1..Len(all_trades) : ~Has(all_trades[k], "instrument") THEN Raise("KeyError")
    ELSE IF \E k \in 1..Len(cluster_clients) : ~Has(cluster_clients[k], "client_id")
         THEN Raise("KeyError")
    ELSE IF IsRaised(evidence) THEN evidence
    ELSE Returned(<<
        [scheme_type |-> "mirror_trading",
         partner_id |-> partner_id,
         group_size |-> Len(cluster_clients),
         client_ids |-> [k \in 1..Len(cluster_clients) |-> cluster_clients[k]["client_id"]],
         client_names |-> [k \in 1..Len(cluster_clients) |-> Get(cluster_clients[k], "name", "Unknown")],
         confidence_score |-> confidence,
         total_trades |-> Len(all_trades),
         common_instruments |-> top_instruments_of(all_trades),
         estimated_fraud_value |->
             30 * Sum([k \in 1..Len(all_trades) |-> Abs(Get(all_trades[k], "profit_loss", 0))]),
         evidence_summary |-> evidence] >>)

clients_of_cluster(list, cluster) == [k \in 1..Len(cluster) |-> list[cluster[k]]]

group_of_cluster(partner_id, list, matrix, cluster) ==
    mirror_group(partner_id, clients_of_cluster(list, cluster),
                 concat_trades(clients_of_cluster(list, cluster), 1),
                 mean_rounded(SumRatios(cluster_cells(matrix, cluster), 1, [num |-> 0, den |-> 1]),
                              Len(cluster)),
                 \* the evidence is built from the instrument counts
                 IF \E k \in 1..Len(concat_trades(clients_of_cluster(list, cluster), 1)) :
                        ~Has(concat_trades(clients_of_cluster(list, cluster), 1)[k], "instrument")
                 THEN Raise("KeyError")
                 ELSE generate_mirror_evidence(
                          clients_of_cluster(list, cluster),
                          top_instruments_of(concat_trades(clients_of_cluster(list, cluster), 1))))

RECURSIVE cluster_loop(_, _, _, _, _, _, _, _)
\* a cluster is reported only when it is larger than min_group_size
cluster_step_above_size(partner_id, list, matrix, size, ratio, i, clustered, groups, cluster) ==
    IF Len(cluster) > size
    THEN cluster_loop(partner_id, list, matrix, size, ratio, i + 1, clustered \cup {cluster[k] : k \in 1..Len(cluster)},
                      extend_findings(groups, group_of_cluster(partner_id, list, matrix, cluster)))
    ELSE cluster_loop(partner_id, list, matrix, size, ratio, i + 1, clustered, groups)

\* what the loop does with the cluster grown from i
cluster_step(partner_id, list, matrix, size, ratio, i, clustered, groups, cluster) ==
    IF Len(cluster) >= size
    THEN cluster_loop(partner_id, list, matrix, size, ratio, i + 1, clustered \cup {cluster[k] : k \in 1..Len(cluster)},
                      extend_findings(groups, group_of_cluster(partner_id, list, matrix, cluster)))
    ELSE cluster_loop(partner_id, list, matrix, size, ratio, i + 1, clustered, groups)

\* the greedy clustering of one partner's clients
cluster_loop(partner_id, list, matrix, size, ratio, i, clustered, groups) ==
    IF IsRaised(groups) \/ i > Len(list) THEN groups
    ELSE IF i \in clustered
         THEN cluster_loop(partner_id, list, matrix, size, ratio, i + 1, clustered, groups)
    ELSE cluster_step(partner_id, list, matrix, size, ratio, i, clustered, groups,
                      grow_cluster(matrix, ratio, clustered, <<i>>, i + 1, Len(list)))

\* the body of the loop over partners once the cells are computed
partner_groups(partner_id, list, cells, size, ratio, groups) ==
    IF IsRaised(first_raised(cells, 1)) THEN first_raised(cells, 1)
    ELSE cluster_loop(partner_id, list, similarity_matrix(Len(list), cells), size, ratio, 1, {}, groups)

RECURSIVE mirror_loop(_, _, _, _, _, _)
mirror_partner(active, keys, size, ratio, p, groups, list) ==
    IF Len(list) < size THEN mirror_loop(active, keys, size, ratio, p + 1, groups)
    ELSE mirror_loop(active, keys, size, ratio, p + 1,
                     partner_groups(keys[p], list, cells_from(list, 1, <<>>), size, ratio, groups))

\* for partner_id, partner_client_list in partner_clients.items()
mirror_loop(active, keys, size, ratio, p, groups) ==
    IF IsRaised(groups) \/ p > Len(keys) THEN groups
    ELSE mirror_partner(active, keys, size, ratio, p, groups,
                        SelectSeq(active, LAMBDA c : c["referred_by"] = keys[p]))

\* the loops over the active clients, and the sort
mirror_groups(active, size, ratio) ==
    IF \E k \in 1..Len(active) : ~Has(active[k], "referred_by") THEN Raise("KeyError")
    ELSE sort_by_confidence(mirror_loop(active, partner_order(active, 1, <<>>), size, ratio, 1,
                                        Returned(<<>>)))

\* every client taken as active, whatever the number of its trades
detect_mirror_group_unfiltered(cs, min_group_size, min_mirror_ratio) ==
    mirror_groups(cs, min_group_size, min_mirror_ratio)

detect_mirror_group(cs, min_group_size, min_mirror_ratio) ==
    mirror_groups(SelectSeq(cs, LAMBDA c : Len(client_trades(c)) >= MinTrades),
                  min_group_size, min_mirror_ratio)

(***************************************************************************)
(* Input snapshots                                                         *)
(***************************************************************************)
Opt(k, S) == {<<>>} \cup {k :> v : v \in S}

Naive(t) == [kind |-> "naive", t |-> t]

BadDate == [kind |-> "bad", t |-> 0]

Trade(id, instrument, direction, volume, minute, pnl) ==
    [trade_id |-> id, instrument |-> instrument, direction |-> direction,
     volume |-> volume, timestamp |-> minute, price |-> 1, profit_loss |-> pnl]

Partners ==
    <<[partner_id |-> "P1", name |-> "Alpha Partners", type |-> "master", commission_rate |-> 30],
      [partner_id |-> "P2", name |-> "Beta Media", type |-> "sub_affiliate", parent_id |-> "P1",
       commission_rate |-> 20]>>

MaxBonusTrades == 10

MaxNow == 2

MaxRuns == 2

\* n trades of volume v (the bonus detector reads a trade's volume only)
BonusTrades(n, v) == [i \in 1..n |-> Trade(i, "EUR/USD", "BUY", v, Naive(0), 0)]

QualityClients ==
    LET \* the signup and withdrawal dates a client may carry
        DatePairs ==
            {<<>>, ("signup_date" :> Naive(0))}
            \cup {("signup_date" :> Naive(0)) @@ ("withdrawal_date" :> w) :
                    w \in {Naive(4), Naive(7), Naive(8), Naive(15), Naive(16), [kind |-> "aware", t |-> 4], BadDate}}
            \cup {("signup_date" :> BadDate) @@ ("withdrawal_date" :> w) : w \in {Naive(8), BadDate}}
    IN  {[client_id |-> "c1", name |-> "James Smith", referred_by |-> "P1", trades |-> BonusTrades(n, v)]
            @@ dep @@ act @@ dates @@ ("current_balance" :> bal) :
            n \in 0..MaxBonusTrades, v \in {1, 20},
            dep \in Opt("initial_deposit", {150, 200}),
            bal \in {20, 40, 100},
            act \in Opt("is_active", BOOLEAN),
            dates \in DatePairs}

(***************************************************************************)
(* State machine of the quality score: one client, scored at the clock's   *)
(* current reading; runs keeps what each call returned.  A call reads the  *)
(* clock through parse_timestamp only, so an entry of runs was computed at *)
(* some reading between 0 and now.                                         *)
(***************************************************************************)
Tick ==
    /\ now < MaxNow
    /\ now' = now + 1
    /\ UNCHANGED <<clients, partners, runs>>

InitQuality ==
    /\ clients \in {<<c>> : c \in QualityClients}
    /\ partners = Partners
    /\ now = 0
    /\ runs = <<>>

ScoreClient ==
    /\ Len(runs) < MaxRuns
    /\ runs' = Append(runs, [op |-> "calculate_client_quality_score",
                            out |-> calculate_client_quality_score(clients[1], now)])
    /\ UNCHANGED <<clients, partners, now>>

NextQuality == ScoreClient \/ Tick

SpecQuality == InitQuality /\ [][NextQuality]_vars

\* C3: every returned quality_score lies in [0, 100], and is_suspicious is
\* true exactly when the returned (clamped) quality_score is below 50.
C3_ScoreBounds ==
    \A i \in DOMAIN runs :
        LET r == runs[i].out
        IN  ~IsRaised(r) =>
                /\ r.quality_score >= 0
                /\ r.quality_score <= 100
                /\ r.is_suspicious <=> (r.quality_score < 50)

\* a client whose deductions exceed 100 has been scored: the clamp acted
C3_Witness ==
    \E i \in DOMAIN runs :
        /\ runs[i].out.quality_score = 0
        /\ runs[i].out.is_suspicious
        /\ Len(runs[i].out.flags) = 5

C5_Present(flags, group) == Cardinality({i \in 1..Len(flags) : flags[i] \in group})

C5_TradePenalty(n) == IF n = 0 THEN 40 ELSE IF n < 5 THEN 25 ELSE IF n < 10 THEN 10 ELSE 0

C5_VolumePenalty(n, volume, deposit) ==
    IF n > 0 /\ deposit > 0
    THEN IF 10 * volume < deposit THEN 20 ELSE IF 2 * volume < deposit THEN 10 ELSE 0
    ELSE 0

\* the days from signup to withdrawal as read at clock reading t, when both
\* dates are given and can be subtracted
C5_WithdrawalPenalty(client, t) ==
    IF Has(client, "withdrawal_date") /\ Has(client, "signup_date")
    THEN LET d == days_between(bonus_parse_timestamp(client["withdrawal_date"], t),
                               bonus_parse_timestamp(client["signup_date"], t))
         IN  IF IsRaised(d) THEN 0 ELSE IF d.days <= 3 THEN 30 ELSE IF d.days <= 7 THEN 15 ELSE 0
    ELSE 0

C5_BalancePenalty(balance, deposit) ==
    IF deposit > 0
    THEN IF 5 * balance < deposit THEN 15 ELSE IF 2 * balance < deposit THEN 5 ELSE 0
    ELSE 0

C5_Penalties(client, t) ==
    LET trades == Get(client, "trades", <<>>)
        deposit == Get(client, "initial_deposit", 0)
        volume == Sum([i \in 1..Len(trades) |-> Get(trades[i], "volume", 0)])
    IN  C5_TradePenalty(Len(trades))
        + C5_VolumePenalty(Len(trades), volume, deposit)
        + C5_WithdrawalPenalty(client, t)
        + C5_BalancePenalty(Get(client, "current_balance", 0), deposit)
        + (IF Get(client, "is_active", TRUE) THEN 0 ELSE 10)
        + (IF deposit < 200 THEN 10 ELSE 0)

\* the client of the penalty example: 0 trades, inactive, deposit 150,
\* balance 20, withdrawal 2 days (4 half days) after signup
C5_IsExample(client) ==
    /\ Len(client["trades"]) = 0
    /\ Get(client, "is_active", TRUE) = FALSE
    /\ Get(client, "initial_deposit", 0) = 150
    /\ client["current_balance"] = 20
    /\ Has(client, "signup_date") /\ Has(client, "withdrawal_date")
    /\ client["signup_date"].kind = "naive" /\ client["withdrawal_date"].kind = "naive"
    /\ client["withdrawal_date"].t - client["signup_date"].t = 2 * HalfDaysPerDay

\* C5: the score is max(0, 100 - penalties), one band per metric (first match),
\* at most one flag per metric, and the example client scores 0 and is suspicious.
C5_PenaltyBands ==
    \A i \in DOMAIN runs :
        LET r == runs[i].out
            c == clients[1]
        IN  ~IsRaised(r) =>
                /\ \E t \in 0..now : r.quality_score = Max(0, 100 - C5_Penalties(c, t))
                /\ C5_Present(r.flags, {"no_trading_activity", "minimal_trading", "low_trading_volume"}) <= 1
                /\ C5_Present(r.flags, {"very_low_volume_ratio", "low_volume_ratio"}) <= 1
                /\ C5_Present(r.flags, {"immediate_withdrawal", "quick_withdrawal"}) <= 1
                /\ C5_Present(r.flags, {"most_funds_withdrawn", "significant_withdrawal"}) <= 1
                /\ C5_Present(r.flags, {"inactive_account"}) <= 1
                /\ C5_Present(r.flags, {"minimal_deposit"}) <= 1
                /\ C5_IsExample(c) => (r.quality_score = 0 /\ r.is_suspicious)

\* the example client has been scored
C5_Witness ==
    \E i \in DOMAIN runs :
        /\ C5_IsExample(clients[1])
        /\ runs[i].out.quality_score = 0
        /\ runs[i].out.flags = <<"no_trading_activity", "immediate_withdrawal",
                                  "most_funds_withdrawn", "inactive_account", "minimal_deposit">>

(***************************************************************************)
(* State machine of the bonus-abuse detector: a snapshot of one partner's  *)
(* referred clients (a multiset of client kinds, in a fixed order) followed*)
(* by a few clients of another partner, some of them malformed.            *)
(***************************************************************************)
MaxReferred == 10

ClientOf(id, partner, n, v, dep, bal, rest) ==
    [client_id |-> id, name |-> "James Smith", referred_by |-> partner,
     trades |-> BonusTrades(n, v), initial_deposit |-> dep, current_balance |-> bal] @@ rest

\* score 100, active
GoodClient(id, partner) == ClientOf(id, partner, 10, 20, 200, 100, "is_active" :> TRUE)

\* score 0, inactive: the client of the penalty example
BadClient(id, partner) ==
    ClientOf(id, partner, 0, 1, 150, 20,
             ("is_active" :> FALSE) @@ ("signup_date" :> Naive(0)) @@ ("withdrawal_date" :> Naive(4)))

\* score 100, is_active not given
NoFlagClient(id, partner) == ClientOf(id, partner, 10, 20, 200, 100, <<>>)

\* score 65, inactive, not suspicious
DormantClient(id, partner) == ClientOf(id, partner, 4, 20, 200, 100, "is_active" :> FALSE)

\* signup date unparseable, withdrawal at half-day 8
UndatedClient(id, partner) ==
    ClientOf(id, partner, 4, 20, 150, 100,
             ("is_active" :> TRUE) @@ ("signup_date" :> BadDate) @@ ("withdrawal_date" :> Naive(8)))

\* a trade without instrument, direction and volume
BrokenTradeClient(id, partner) ==
    [client_id |-> id, name |-> "Raj Patel", referred_by |-> partner,
     trades |-> [i \in 1..10 |-> [trade_id |-> i, timestamp |-> Naive(0), price |-> 1, profit_loss |-> 0]],
     initial_deposit |-> 200, current_balance |-> 100, is_active |-> TRUE]

BonusSnapshots ==
    LET ReferredLists ==
            {[i \in 1..g |-> GoodClient("g", "P1")] \o [i \in 1..b |-> BadClient("b", "P1")]
                \o [i \in 1..d |-> DormantClient("d", "P1")] :
                g \in 0..MaxReferred, b \in 0..MaxReferred, d \in 0..MaxReferred}
        OtherPartnerLists ==
            {<<>>, <<BadClient("x", "P2")>>, <<UndatedClient("u", "P2")>>,
             <<GoodClient("y", "P2"), BadClient("x", "P2")>>,
             <<NoFlagClient("m", "P2")>>, <<GoodClient("y", "P2"), NoFlagClient("m", "P2")>>,
             \* no client_id
             <<[name |-> "Maria Chen", referred_by |-> "P2", trades |-> BonusTrades(10, 20),
                initial_deposit |-> 200, current_balance |-> 100, is_active |-> TRUE]>>,
             <<BrokenTradeClient("k", "P3")>>,
             \* score 65 on the flags low_trading_volume, very_low_volume_ratio and
             \* significant_withdrawal, and the same client inactive with a small
             \* deposit, score 45
             <<ClientOf("s", "P2", 9, 1, 200, 40, "is_active" :> TRUE)>>,
             <<ClientOf("s", "P2", 9, 1, 200, 40, "is_active" :> TRUE),
               ClientOf("t", "P2", 9, 1, 150, 40, "is_active" :> FALSE)>>}
    IN  {a \o b : a \in {l \in ReferredLists : Len(l) <= MaxReferred}, b \in OtherPartnerLists}

InitBonus ==
    /\ clients \in BonusSnapshots
    /\ partners = Partners
    /\ now = 0
    /\ runs = <<>>

DetectBonusAbuse ==
    /\ Len(runs) < MaxRuns
    /\ runs' = Append(runs, [op |-> "detect_bonus_abuse",
                            out |-> detect_bonus_abuse(clients, partners, now)])
    /\ UNCHANGED <<clients, partners, now>>

NextBonus == DetectBonusAbuse \/ Tick

SpecBonus == InitBonus /\ [][NextBonus]_vars

\* C4: two runs of a detector on the same snapshot return the same report,
\* whenever they happen (stated here for detect_bonus_abuse).
C4_Deterministic ==
    \A i, j \in DOMAIN runs : runs[i].out = runs[j].out

C8_Referred(pid) == {i \in 1..Len(clients) : clients[i]["referred_by"] = pid}

C8_Listed(out, pid) ==
    \E k \in 1..Len(out.suspicious_partners) : out.suspicious_partners[k].partner_id = pid

C8_Quality(i, t) == calculate_client_quality_score(clients[i], t)

\* the three conditions on a partner's referred clients, qualities read at clock t;
\* active_count counts the clients recorded as active
C8_Condition(pid, t) ==
    LET idx == C8_Referred(pid)
        n == Cardinality(idx)
        suspicious == Cardinality({i \in idx : C8_Quality(i, t).is_suspicious})
        ids == [k \in 1..Len(clients) |-> IF k \in idx THEN C8_Quality(k, t).quality_score ELSE 0]
        active_count == Cardinality({i \in idx : Has(clients[i], "is_active") /\ clients[i]["is_active"]})
    IN  \/ 10 * suspicious > 3 * n
        \/ Sum(ids) < 50 * n
        \/ 4 * active_count < n

C8_TenWithFour(pid, t) ==
    /\ Cardinality(C8_Referred(pid)) = 10
    /\ Cardinality({i \in C8_Referred(pid) : C8_Quality(i, t).is_suspicious}) = 4

\* C8: a partner of the partner list with at least one referred client is listed
\* iff suspicious_ratio > 0.3 or avg_quality < 50 or conversion_rate < 0.25;
\* a partner with 10 referred clients, 4 of them suspicious, is listed.
C8_PartnerListed ==
    \A r \in DOMAIN runs :
        LET out == runs[r].out
        IN  ~IsRaised(out) =>
                \E t \in 0..now :
                    \A p \in DOMAIN partners :
                        LET pid == partners[p]["partner_id"]
                        IN  /\ C8_Referred(pid) # {} =>
                                (C8_Listed(out, pid) <=> C8_Condition(pid, t))
                            /\ C8_Referred(pid) = {} => ~C8_Listed(out, pid)
                            /\ C8_TenWithFour(pid, t) => C8_Listed(out, pid)

\* a partner with 10 referred clients, 4 suspicious, average quality 60 and
\* conversion rate 0.6 has been analysed and is listed
C8_Witness ==
    \E r \in DOMAIN runs :
        /\ ~IsRaised(runs[r].out)
        /\ C8_TenWithFour("P1", 0)
        /\ \E k \in 1..Len(runs[r].out.suspicious_partners) :
              LET a == runs[r].out.suspicious_partners[k]
              IN  /\ a.partner_id = "P1"
                  /\ a.suspicious_ratio = 400
                  /\ a.avg_client_quality = 600
                  /\ a.conversion_rate = 600

\* the clients of a partner that count as active when a missing is_active is
\* resolved to true
C12_Active(pid) == {i \in C8_Referred(pid) : Get(clients[i], "is_active", TRUE)}

\* C12: a client without is_active is treated as active in the partner rollup as
\* it is in the quality score: the conversion_rate of every listed partner is
\* the share of its referred clients that are active, a missing flag counting
\* as active.
C12_SameDefault ==
    \A r \in DOMAIN runs :
        ~IsRaised(runs[r].out) =>
            \A k \in 1..Len(runs[r].out.suspicious_partners) :
                LET a == runs[r].out.suspicious_partners[k]
                IN  a.conversion_rate =
                        RoundHalfEven(1000 * Cardinality(C12_Active(a.partner_id)),
                                      Cardinality(C8_Referred(a.partner_id)))

(***************************************************************************)
(* State machine of the bonus-abuse detector on long lists: MaxBulk - 3 to  *)
(* MaxBulk suspicious clients, either all referred by P1 (up to MaxWeak    *)
(* clients of score 45 first, then clients of score 0), or each referred   *)
(* by a partner of its own.                                                *)
(***************************************************************************)
MaxBulk == 52

MaxWeak == 8

BulkSnapshots ==
    {[clients |-> [i \in 1..w |-> ClientOf("w", "P1", 2, 1, 150, 100, "is_active" :> TRUE)]
                  \o [i \in 1..(n - w) |-> BadClient("b", "P1")],
      partners |-> Partners] :
        <<n, w>> \in ((MaxBulk - 3)..MaxBulk) \X (0..MaxWeak)}
    \cup {[clients |-> [i \in 1..n |-> BadClient("b", "Q" \o ToString(i))],
           partners |-> [i \in 1..n |-> [partner_id |-> "Q" \o ToString(i), name |-> "Gamma Leads",
                                         type |-> "sub_affiliate", commission_rate |-> 20]]] :
            n \in (MaxBulk - 3)..MaxBulk}

InitBulk ==
    /\ \E s \in BulkSnapshots : clients = s.clients /\ partners = s.partners
    /\ now = 0
    /\ runs = <<>>

NextBulk == DetectBonusAbuse

SpecBulk == InitBulk /\ [][NextBulk]_vars

C14_Suspicious == {i \in DOMAIN clients : C8_Quality(i, now).is_suspicious}

C14_Scored(S, score) == Cardinality({i \in S : C8_Quality(i, now).quality_score = score})

C14_Listed(out, score) ==
    Cardinality({k \in DOMAIN out.suspicious_clients :
                    out.suspicious_clients[k].quality_score = score})

\* C14: suspicious_clients holds the first min(50, N) of the N suspicious clients
\* in ascending quality_score, so every client left out scores at least as high
\* as every listed one; total_suspicious_clients is N; suspicious_partners holds
\* every suspicious partner.
C14_TopFifty ==
    LET \* <<client, quality_score>> of every suspicious client of the snapshot
        suspicious == {<<i, C8_Quality(i, now).quality_score>> : i \in C14_Suspicious}
        scored(score) == Cardinality({c \in suspicious : c[2] = score})
    IN  \A r \in DOMAIN runs :
            LET out == runs[r].out
            IN  ~IsRaised(out) =>
                  /\ out.total_suspicious_clients = Cardinality(suspicious)
                  /\ Len(out.suspicious_clients) = Min(50, Cardinality(suspicious))
                  /\ \A k \in 1..(Len(out.suspicious_clients) - 1) :
                        out.suspicious_clients[k].quality_score
                            <= out.suspicious_clients[k + 1].quality_score
                  /\ \A score \in {c[2] : c \in suspicious} :
                        /\ C14_Listed(out, score) <= scored(score)
                        /\ C14_Listed(out, score) < scored(score) =>
                              \A k \in DOMAIN out.suspicious_clients :
                                  out.suspicious_clients[k].quality_score <= score
                  /\ Len(out.suspicious_partners) = out.total_suspicious_partners
                  /\ \A p \in DOMAIN partners :
                        (C8_Referred(partners[p]["partner_id"]) # {}
                         /\ C8_Condition(partners[p]["partner_id"], now)) =>
                            C8_Listed(out, partners[p]["partner_id"])

\* 52 suspicious clients, 50 of them listed: the 48 of score 0 before 2 of the 4
\* of score 45
C14_Witness ==
    \E r \in DOMAIN runs :
        /\ ~IsRaised(runs[r].out)
        /\ runs[r].out.total_suspicious_clients = 52
        /\ Len(runs[r].out.suspicious_clients) = 50
        /\ runs[r].out.suspicious_clients[48].quality_score = 0
        /\ runs[r].out.suspicious_clients[49].quality_score = 45
        /\ C14_Scored(C14_Suspicious, 45) = 4

(***************************************************************************)
(* State machine of the opposite-trading detector: client "a" of partner   *)
(* P1 and client "b" of partner P2 each hold some of the trades of their   *)
(* own timeline, in its order; a third client may follow.  Some trades and *)
(* clients are malformed.                                                  *)
(***************************************************************************)
MaxTrades == 3

TradingClient(id, name, partner, trades) ==
    [client_id |-> id, name |-> name, referred_by |-> partner, trades |-> trades,
     initial_deposit |-> 200, current_balance |-> 100, is_active |-> TRUE,
     signup_date |-> Naive(0)]

OppositeSnapshots ==
    LET TimelineA ==
            <<Trade(1, "EUR/USD", "BUY", 1, Naive(0), 1),
              Trade(2, "EUR/USD", "BUY", 2, Naive(10), -1),
              Trade(3, "GBP/USD", "SELL", 1, Naive(12), 1),
              Trade(4, "EUR/USD", "SELL", 0, Naive(30), -2)>>
        TimelineB ==
            <<Trade(11, "EUR/USD", "SELL", 1, Naive(2), -1),
              Trade(12, "EUR/USD", "SELL", 2, Naive(3), 1),
              Trade(13, "EUR/USD", "BUY", 1, Naive(10), 1),
              Trade(14, "GBP/USD", "BUY", 2, Naive(12), -1),
              Trade(15, "EUR/USD", "SELL", 1, Naive(20), 2),
              Trade(16, "EUR/USD", "BUY", 0, Naive(30), 2),
              \* a timestamp that does not parse
              Trade(17, "EUR/USD", "SELL", 1, BadDate, 1),
              \* no volume
              [trade_id |-> 18, instrument |-> "EUR/USD", direction |-> "SELL",
               timestamp |-> Naive(31), price |-> 1, profit_loss |-> 1]>>
        \* the trades of a timeline a client may hold: at most n of them, in order
        Holdings(timeline, n) ==
            {[k \in 1..Cardinality(S) |->
                 timeline[CHOOSE i \in S : Cardinality({j \in S : j <= i}) = k]] :
                S \in {T \in SUBSET (1..Len(timeline)) : Cardinality(T) <= n}}
        ThirdClients ==
            {<<>>,
             \* a second client of P1
             <<TradingClient("c", "Wei Kim", "P1",
                             <<Trade(21, "EUR/USD", "BUY", 1, Naive(4), 1),
                               Trade(22, "EUR/USD", "BUY", 1, Naive(20), -2)>>)>>,
             \* a second client of P1 on the other side of a's first trade
             <<TradingClient("c", "Wei Kim", "P1",
                             <<Trade(21, "EUR/USD", "SELL", 1, Naive(2), -1)>>)>>,
             \* a second client of P2
             <<TradingClient("c", "Wei Kim", "P2",
                             <<Trade(21, "EUR/USD", "SELL", 1, Naive(1), -1),
                               Trade(22, "GBP/USD", "BUY", 1, Naive(11), 2),
                               Trade(23, "EUR/USD", "SELL", 1, Naive(12), -3)>>)>>,
             \* a client of a third partner
             <<TradingClient("c", "Wei Kim", "P3",
                             <<Trade(21, "EUR/USD", "SELL", 1, Naive(0), -1)>>)>>,
             \* no client_id, no trades
             <<[name |-> "Maria Chen", referred_by |-> "P3"]>>,
             \* no client_id, one trade
             <<[name |-> "Maria Chen", referred_by |-> "P3",
                trades |-> <<Trade(21, "EUR/USD", "SELL", 1, Naive(1), -1)>>]>>,
             \* a trade without instrument
             <<TradingClient("c", "Raj Patel", "P3",
                             <<[trade_id |-> 21, direction |-> "SELL", volume |-> 1,
                                timestamp |-> Naive(0), price |-> 1, profit_loss |-> 0]>>)>>,
             \* a trade without direction
             <<TradingClient("c", "Raj Patel", "P3",
                             <<[trade_id |-> 21, instrument |-> "EUR/USD", volume |-> 1,
                                timestamp |-> Naive(0), price |-> 1, profit_loss |-> 0]>>)>>,
             \* no referred_by
             <<[client_id |-> "c", name |-> "Raj Patel", trades |-> <<>>]>>}
    IN  {<<TradingClient("a", "James Smith", "P1", ta), TradingClient("b", "Emma Jones", "P2", tb)>> \o c :
            ta \in Holdings(TimelineA, MaxTrades), tb \in Holdings(TimelineB, MaxTrades),
            c \in ThirdClients}

InitOpposite ==
    /\ clients \in OppositeSnapshots
    /\ partners = Partners
    /\ now = 0
    /\ runs = <<>>

DetectOppositeTrading ==
    /\ Len(runs) < MaxRuns
    /\ runs' = Append(runs, [op |-> "detect_opposite_trading",
                            out |-> detect_opposite_trading(clients, Threshold)])
    /\ UNCHANGED <<clients, partners, now>>

NextOpposite == DetectOppositeTrading

SpecOpposite == InitOpposite /\ [][NextOpposite]_vars

Reports(op) == {runs[r].out : r \in {q \in DOMAIN runs : runs[q].op = op /\ ~IsRaised(runs[q].out)}}

\* C2: every finding of detect_opposite_trading has a confidence_score between
\* 0 and 1 (0 and 1000 thousandths), also when one trade of a client forms
\* opposite pairs with several trades of the other.
C2_ConfidenceInRange ==
    \A out \in Reports("detect_opposite_trading") :
        \A k \in 1..Len(out.returned) :
            /\ out.returned[k].confidence_score >= 0
            /\ out.returned[k].confidence_score <= 1000

\* one trade of "a" forms opposite pairs with two trades of "b": the ratio is 2
C2_SeveralPairsForOneTrade ==
    \E out \in Reports("detect_opposite_trading") :
        \E k \in 1..Len(out.returned) :
            /\ out.returned[k].num_opposite_pairs = 2
            /\ out.returned[k].total_trades_analyzed = 3
            /\ out.returned[k].opposite_trade_ratio = 2000

C6_Trades(c) == Get(c, "trades", <<>>)

C6_FirstOf(partner) ==
    CHOOSE i \in DOMAIN clients :
        /\ clients[i]["referred_by"] = partner
        /\ \A j \in 1..(i - 1) : clients[j]["referred_by"] # partner

\* x is a client of a partner met before y's partner in the client list
C6_CrossPartner(x, y) ==
    C6_FirstOf(clients[x]["referred_by"]) < C6_FirstOf(clients[y]["referred_by"])

C6_Reported(out, x, y) ==
    /\ Has(clients[x], "client_id") /\ Has(clients[y], "client_id")
    /\ \E k \in 1..Len(out.returned) :
          /\ out.returned[k].client_a = clients[x]["client_id"]
          /\ out.returned[k].client_b = clients[y]["client_id"]

\* 1000 * (0.3 tc + 0.4 P / M) as numerator and denominator
C6_RationalNum(tc, P, M) == 300 * tc.num * M + 400 * P * tc.den

C6_RationalDen(tc, M) == tc.den * M

\* 0.3 tc + 0.4 P / M + 0.3 max(0, -N / sqrt(D)) >= 0.6
C6_ScoreReaches(tc, P, M, pc) ==
    \/ C6_RationalNum(tc, P, M) >= 600 * C6_RationalDen(tc, M)
    \/ /\ pc.num < 0
       /\ SqrtGeq(300 * (-pc.num) * C6_RationalDen(tc, M), pc.den2,
                  600 * C6_RationalDen(tc, M) - C6_RationalNum(tc, P, M))

C6_PairReaches(t1, t2) ==
    /\ Len(t1) > 0 /\ Len(t2) > 0
    /\ C6_ScoreReaches(calculate_timing_correlation(t1, t2, TimeWindowMinutes),
                       Len(detect_opposite_directions(t1, t2, TimeWindowMinutes).returned),
                       Min(Len(t1), Len(t2)),
                       calculate_pnl_correlation(t1, t2))

\* C6: in a report of detect_opposite_trading a cross-partner client pair is
\* listed iff 0.3*timing_corr + 0.4*opposite_ratio + 0.3*max(0, -pnl_corr) >= 0.6,
\* with opposite_ratio = pairs / min(len A, len B), and a pair with an empty
\* trade list (ratio 0) is not listed.
C6_ReportedIffScore ==
    \A out \in Reports("detect_opposite_trading") :
        \A x, y \in DOMAIN clients :
            C6_CrossPartner(x, y) =>
                (C6_Reported(out, x, y) <=> C6_PairReaches(C6_Trades(clients[x]), C6_Trades(clients[y])))

\* the rational part of the score is below the threshold and the inverse
\* profit/loss correlation lifts the pair over it; another pair of non-empty
\* trade lists stays below and is not listed
C6_Witness ==
    \E out \in Reports("detect_opposite_trading") :
        /\ \E k \in 1..Len(out.returned) :
              /\ out.returned[k].pnl_correlation < 0
              /\ 3 * out.returned[k].timing_correlation + 4 * out.returned[k].opposite_trade_ratio < 5900
        /\ \E x, y \in DOMAIN clients :
              /\ C6_CrossPartner(x, y)
              /\ Len(C6_Trades(clients[x])) > 0 /\ Len(C6_Trades(clients[y])) > 0
              /\ ~C6_Reported(out, x, y)

\* C23: detect_opposite_trading pairs clients of two distinct referral groups
\* only, each pair once: every finding has partner_a # partner_b and names a
\* client of each, no two clients of one partner are in a finding, and no
\* unordered client pair is in two findings.
C23_PairedOnce ==
    \A out \in Reports("detect_opposite_trading") :
        /\ \A k \in DOMAIN out.returned :
               /\ out.returned[k].partner_a # out.returned[k].partner_b
               /\ \E x, y \in DOMAIN clients :
                      /\ Get(clients[x], "client_id", "") = out.returned[k].client_a
                      /\ Get(clients[y], "client_id", "") = out.returned[k].client_b
                      /\ clients[x]["referred_by"] = out.returned[k].partner_a
                      /\ clients[y]["referred_by"] = out.returned[k].partner_b
        /\ \A x, y \in DOMAIN clients :
               clients[x]["referred_by"] = clients[y]["referred_by"] => ~C6_Reported(out, x, y)
        /\ \A k, m \in DOMAIN out.returned :
               k # m => {out.returned[k].client_a, out.returned[k].client_b}
                            # {out.returned[m].client_a, out.returned[m].client_b}

\* two clients of one partner whose trades would reach the threshold are not
\* in a finding, and one of them is in a finding with a client of another
\* partner
C23_Witness ==
    \E out \in Reports("detect_opposite_trading") :
        \E x, y, z \in DOMAIN clients :
            /\ x # y
            /\ clients[x]["referred_by"] = clients[y]["referred_by"]
            /\ clients[z]["referred_by"] # clients[x]["referred_by"]
            /\ C6_Reported(out, x, z)
            /\ ~C6_Reported(out, x, y) /\ ~C6_Reported(out, y, x)
            /\ C6_PairReaches(C6_Trades(clients[x]), C6_Trades(clients[y]))

\* the two clients of the scenario: one trade each, same instrument, opposite
\* directions, volume 1, 2 minutes apart, profit_loss +1 and -1 (hundreds)
C7_Trade(t, direction, pnl) ==
    /\ Get(t, "instrument", "") = "EUR/USD"
    /\ Get(t, "direction", "") = direction
    /\ Get(t, "volume", 0) = 1
    /\ t["timestamp"].kind = "naive"
    /\ Get(t, "profit_loss", 0) = pnl

C7_Scenario(c1, c2) ==
    /\ c1["referred_by"] # c2["referred_by"]
    /\ Len(C6_Trades(c1)) = 1 /\ Len(C6_Trades(c2)) = 1
    /\ C7_Trade(C6_Trades(c1)[1], "BUY", 1)
    /\ C7_Trade(C6_Trades(c2)[1], "SELL", -1)
    /\ Abs(C6_Trades(c1)[1]["timestamp"].t - C6_Trades(c2)[1]["timestamp"].t) = 2

C7_Finding(out, c1, c2, ratio, pnl, timing) ==
    \E k \in 1..Len(out.returned) :
        /\ out.returned[k].client_a = c1["client_id"]
        /\ out.returned[k].client_b = c2["client_id"]
        /\ out.returned[k].opposite_trade_ratio = ratio
        /\ out.returned[k].pnl_correlation = pnl
        /\ out.returned[k].timing_correlation = timing

\* C7 as claimed: the pair of the scenario is reported with opposite_ratio 1.0,
\* pnl_corr -1.0 and timing_corr 0.8.
C7_ScenarioAsClaimed ==
    \A out \in Reports("detect_opposite_trading") :
        C7_Scenario(clients[1], clients[2]) =>
            C7_Finding(out, clients[1], clients[2], 1000, -1000, 800)

\* C7: the pair of the scenario is reported with opposite_ratio 1.0, timing_corr
\* 0.8 contributing 0.24, and pnl_corr 0 contributing nothing (each client holds
\* one trade, fewer than the two a correlation needs): confidence 0.64.
C7_ScenarioReported ==
    \A out \in Reports("detect_opposite_trading") :
        C7_Scenario(clients[1], clients[2]) =>
            /\ C7_Finding(out, clients[1], clients[2], 1000, 0, 800)
            /\ \A k \in 1..Len(out.returned) :
                  (out.returned[k].client_a = "a" /\ out.returned[k].client_b = "b") =>
                      out.returned[k].confidence_score = 640

C7_Witness ==
    /\ C7_Scenario(clients[1], clients[2])
    /\ \E out \in Reports("detect_opposite_trading") :
          C7_Finding(out, clients[1], clients[2], 1000, 0, 800)

C9_Unparseable(c) ==
    \E k \in 1..Len(Get(c, "trades", <<>>)) :
        /\ Has(c["trades"][k], "timestamp")
        /\ c["trades"][k]["timestamp"].kind = "bad"

\* C9: a timestamp that cannot be parsed never aborts a run of
\* detect_opposite_trading: no run on a snapshot holding such a trade ends in
\* the ValueError of parse_timestamp.
C9_ParseFailureIsSoft ==
    \A r \in DOMAIN runs :
        (\E i \in DOMAIN clients : C9_Unparseable(clients[i])) =>
            ~(IsRaised(runs[r].out) /\ runs[r].out.exception = "ValueError")

C10_BrokenTrade(t) ==
    ~Has(t, "instrument") \/ ~Has(t, "direction") \/ ~Has(t, "volume")

C10_StructuralViolation(c) ==
    \/ ~Has(c, "client_id")
    \/ \E k \in 1..Len(Get(c, "trades", <<>>)) : C10_BrokenTrade(c["trades"][k])

\* C10: when a client of the snapshot lacks client_id, or a trade lacks
\* instrument, direction or volume, every run of detect_opposite_trading aborts
\* with an error and returns no report.
C10_StructuralViolationAborts ==
    \A r \in DOMAIN runs :
        (\E i \in DOMAIN clients : C10_StructuralViolation(clients[i])) =>
            IsRaised(runs[r].out)

C11_NoDivisionFault ==
    \A r \in DOMAIN runs :
        ~(IsRaised(runs[r].out) /\ runs[r].out.exception = "ZeroDivisionError")

(***************************************************************************)
(* State machine of the mirror-trading detector: clients of partner P1     *)
(* that each trade in ten slots, in a slot either the pattern they share   *)
(* or a trade of their own, followed by at most one more client.           *)
(***************************************************************************)
MaxMirrorClients == 4

\* slots 1 and 2 are two minutes apart, the others an hour
SlotMinute(slot) == IF slot = 2 THEN 62 ELSE 60 * slot

\* a client's trades, one per slot: in the slots it follows the trade of the
\* shared pattern, elsewhere a trade of its own, with its own instrument, its
\* own volume and its own minute
SlotTrades(slots, follows, volume, delay, position) ==
    LET SlotInstruments ==
            <<"EUR/USD", "EUR/USD", "GBP/USD", "USD/JPY", "AUD/USD",
              "XAU/USD", "EUR/USD", "GBP/USD", "USD/JPY", "AUD/USD">>
    IN  [k \in 1..slots |->
            IF k \in follows
            THEN Trade(k, SlotInstruments[k], IF k <= 6 THEN "BUY" ELSE "SELL", volume,
                       Naive(SlotMinute(k) + delay), 1)
            ELSE Trade(k, "BTC/USD", IF k <= 6 THEN "BUY" ELSE "SELL",
                       10 * (position + 1) * (position + 1),
                       Naive(SlotMinute(k) + 15 + 8 * position), -1)]

MirrorIds == <<"m1", "m2", "m3", "m4", "m5", "m6", "m7", "m8">>

MirrorSnapshots ==
    LET \* who follows the pattern where: in all slots, in the first half, in the
        \* second half, and from slot 2 on with another volume, a minute late
        Profiles ==
            {[follows |-> 1..10, volume |-> 2, delay |-> 0],
             [follows |-> 1..5, volume |-> 2, delay |-> 0],
             [follows |-> 6..10, volume |-> 2, delay |-> 0],
             [follows |-> 2..10, volume |-> 3, delay |-> 1]}
        \* the trades of a client that follows the pattern in every slot, the last
        \* trade replaced
        LeaderTrades(position, last) ==
            [SlotTrades(MinTrades, 1..10, 2, 0, position) EXCEPT ![MinTrades] = last]
        \* the client that may follow the clients of P1 when they are no more than a
        \* group of the default size, at a position
        Tails(position) ==
            {<<>>,
             \* one trade short of the trades the detector asks for
             <<TradingClient(MirrorIds[position], "Wei Kim", "P1", SlotTrades(MinTrades - 1, 1..10, 2, 0, position))>>,
             \* a client of another partner
             <<TradingClient(MirrorIds[position], "Wei Kim", "P2",
                             SlotTrades(MinTrades, 1..10, 2, 0, position))>>,
             \* a timestamp that does not parse
             <<TradingClient(MirrorIds[position], "Raj Patel", "P1",
                             LeaderTrades(position, Trade(10, "AUD/USD", "SELL", 2, BadDate, 1)))>>,
             \* a trade without volume
             <<TradingClient(MirrorIds[position], "Raj Patel", "P1",
                             LeaderTrades(position,
                                          [trade_id |-> 10, instrument |-> "AUD/USD", direction |-> "SELL",
                                           timestamp |-> Naive(600), price |-> 1, profit_loss |-> 1]))>>,
             \* a client of another partner whose trades lack instrument, direction, volume
             <<BrokenTradeClient(MirrorIds[position], "P2")>>,
             \* no client_id
             <<[name |-> "Maria Chen", referred_by |-> "P1",
                trades |-> SlotTrades(MinTrades, 1..10, 2, 0, position),
                signup_date |-> Naive(0)]>>}
    IN  {[k \in 1..n |->
            TradingClient(MirrorIds[k], "James Smith", "P1",
                          SlotTrades(MinTrades, body[k].follows, body[k].volume, body[k].delay, k))]
            \o tail :
            <<n, body, tail>> \in
                {<<n, body, tail>> \in
                    UNION {{<<m, b, t>> : b \in [1..m -> Profiles], t \in Tails(m + 1)} : m \in 2..MaxMirrorClients} :
                    n + Len(tail) <= MaxMirrorClients /\ (tail # <<>> => n <= MinGroupSize)}}

InitMirror ==
    /\ clients \in MirrorSnapshots
    /\ partners = Partners
    /\ now = 0
    /\ runs = <<>>

\* one call on the snapshot, min_group_size the default or one less
DetectMirrorGroup ==
    /\ runs = <<>>
    /\ \E min_group_size \in {MinGroupSize - 1, MinGroupSize} :
          runs' = Append(runs, [op |-> "detect_mirror_group",
                                min_group_size |-> min_group_size,
                                out |-> detect_mirror_group(clients, min_group_size, MinMirrorRatio)])
    /\ UNCHANGED <<clients, partners, now>>

NextMirror == DetectMirrorGroup

SpecMirror == InitMirror /\ [][NextMirror]_vars

C1_Index(id) == CHOOSE x \in DOMAIN clients : Get(clients[x], "client_id", "") = id

\* the cell of the matrix for the clients at x and y: the one the detector
\* computes for the earlier of the two against the later
C1_Cell(x, y) == matrix_cell(clients[Min(x, y)], clients[Max(x, y)])

C1_AtLeastHalf(cell) == 2 * cell.num >= cell.den

\* C1: in every group detect_mirror_group returns, every two distinct members
\* have a similarity-matrix cell >= min_mirror_ratio (0.5).
C1_ClusterValid ==
    \A out \in Reports("detect_mirror_group") :
        \A g \in 1..Len(out.returned) :
            \A a, b \in 1..Len(out.returned[g].client_ids) :
                a < b =>
                    C1_AtLeastHalf(C1_Cell(C1_Index(out.returned[g].client_ids[a]),
                                           C1_Index(out.returned[g].client_ids[b])))

\* a group of three is returned, and a fourth client of the partner whose cell
\* with the group's first member is >= 0.5 was left out of it
C1_Witness ==
    \E out \in Reports("detect_mirror_group") :
        /\ Len(out.returned) = 1
        /\ out.returned[1].group_size = 3
        /\ out.returned[1].client_ids[1] = "m1"
        /\ \E x \in DOMAIN clients :
              /\ Len(client_trades(clients[x])) >= MinTrades
              /\ clients[x]["referred_by"] = "P1"
              /\ Has(clients[x], "client_id")
              /\ \A a \in 1..3 : out.returned[1].client_ids[a] # clients[x]["client_id"]
              /\ C1_AtLeastHalf(C1_Cell(1, x))

\* the clients a group lists, as positions of the snapshot
C15_Members(group) == {C1_Index(group.client_ids[a]) : a \in 1..Len(group.client_ids)}

\* C15: every group detect_mirror_group returns has at least min_group_size
\* members, its members are referred by the group's partner and have at least
\* 10 trades each, and no client is listed twice, in one group or in two.
C15_GroupsDisjoint ==
    \A r \in DOMAIN runs :
        ~IsRaised(runs[r].out) =>
            LET groups == runs[r].out.returned
            IN  /\ \A g \in 1..Len(groups) :
                      /\ groups[g].group_size >= runs[r].min_group_size
                      /\ Len(groups[g].client_ids) = groups[g].group_size
                      /\ Cardinality(C15_Members(groups[g])) = groups[g].group_size
                      /\ \A x \in C15_Members(groups[g]) :
                            /\ clients[x]["referred_by"] = groups[g].partner_id
                            /\ Len(client_trades(clients[x])) >= MinTrades
                /\ \A g, h \in 1..Len(groups) :
                      g # h => C15_Members(groups[g]) \cap C15_Members(groups[h]) = {}

\* two groups of two clients are returned, from four clients of one partner
C15_Witness ==
    \E r \in DOMAIN runs :
        /\ ~IsRaised(runs[r].out)
        /\ Len(runs[r].out.returned) = 2
        /\ runs[r].out.returned[1].partner_id = runs[r].out.returned[2].partner_id
        /\ Len(clients) = 4

\* the sum of the cells over the unordered pairs of a group's members, the
\* cells computed from the members' trades
C16_Total(group) ==
    LET n == Len(group.client_ids)
        member(a) == C1_Index(group.client_ids[a])
    IN  SumRatios([k \in 1..(n * n) |->
                      IF (k - 1) \div n < (k - 1) % n
                      THEN C1_Cell(member(((k - 1) \div n) + 1), member(((k - 1) % n) + 1))
                      ELSE [num |-> 0, den |-> 1]],
                  1, [num |-> 0, den |-> 1])

\* the number of unordered pairs of a group's members
C16_Pairs(group) == (Len(group.client_ids) * (Len(group.client_ids) - 1)) \div 2

\* C16 as stated: the confidence_score of every mirror-trading group is the
\* mean of the cells over the unordered pairs of its members, and lies in
\* [0, 1] (scores count thousandths).
C16_ExactMean ==
    \A r \in DOMAIN runs :
        ~IsRaised(runs[r].out) =>
            \A g \in 1..Len(runs[r].out.returned) :
                LET group == runs[r].out.returned[g]
                    total == C16_Total(group)
                IN  /\ group.confidence_score * total.den * C16_Pairs(group) = 1000 * total.num
                    /\ group.confidence_score \in 0..1000

\* C16: the confidence_score of every mirror-trading group is the mean of the
\* cells over the unordered pairs of its members rounded to 3 decimal places,
\* and lies in [0, 1].
C16_RoundedMean ==
    \A r \in DOMAIN runs :
        ~IsRaised(runs[r].out) =>
            \A g \in 1..Len(runs[r].out.returned) :
                LET group == runs[r].out.returned[g]
                    total == C16_Total(group)
                IN  /\ group.confidence_score =
                          RoundHalfEven(1000 * total.num, total.den * C16_Pairs(group))
                    /\ group.confidence_score \in 0..1000

\* a group of three whose mean, 2/3, has no 3-place decimal: reported as 0.667
C16_Witness ==
    \E r \in DOMAIN runs :
        /\ ~IsRaised(runs[r].out)
        /\ Len(runs[r].out.returned) = 1
        /\ runs[r].out.returned[1].group_size = 3
        /\ runs[r].out.returned[1].confidence_score = 667
        /\ 3 * C16_Total(runs[r].out.returned[1]).num = 2 * 3 * C16_Total(runs[r].out.returned[1]).den

\* the positions of a partner's eligible clients, in input order
C24_Eligible(partner) ==
    SelectSeq([x \in DOMAIN clients |-> x],
              LAMBDA x : /\ Len(client_trades(clients[x])) >= MinTrades
                         /\ clients[x]["referred_by"] = partner)

\* the pairs of positions among S whose cell is >= min_mirror_ratio
C24_SimilarPairs(S) ==
    {xy \in S \X S : xy[1] < xy[2] /\ C1_AtLeastHalf(C1_Cell(xy[1], xy[2]))}

C24_Listed(out, partner) ==
    \E g \in DOMAIN out.returned : out.returned[g].partner_id = partner

\* as claimed: whenever min_group_size eligible clients of a partner have cells
\* pairwise >= min_mirror_ratio, a group of the partner is returned, whatever
\* the order of the clients in the input.
C24_CliqueFound ==
    \A r \in DOMAIN runs :
        ~IsRaised(runs[r].out) =>
            \A partner \in {"P1", "P2"} :
                LET eligible == C24_Eligible(partner)
                    positions == {eligible[k] : k \in DOMAIN eligible}
                    similar == IF Len(eligible) >= runs[r].min_group_size
                               THEN C24_SimilarPairs(positions) ELSE {}
                IN  (\E S \in SUBSET positions :
                        /\ Cardinality(S) = runs[r].min_group_size
                        /\ \A x, y \in S : x < y => <<x, y>> \in similar)
                    => C24_Listed(runs[r].out, partner)

\* C24: whenever the first min_group_size eligible clients of a partner, in
\* input order, have cells pairwise >= min_mirror_ratio, detect_mirror_group
\* returns at least one group for that partner.
C24_LeadingCliqueFound ==
    \A r \in DOMAIN runs :
        ~IsRaised(runs[r].out) =>
            \A partner \in {"P1", "P2"} :
                LET eligible == C24_Eligible(partner)
                    leading == {eligible[k] : k \in 1..runs[r].min_group_size}
                IN  (/\ Len(eligible) >= runs[r].min_group_size
                     /\ C24_SimilarPairs(leading) = {xy \in leading \X leading : xy[1] < xy[2]})
                    => C24_Listed(runs[r].out, partner)

\* three clients pairwise similar lead the four clients of P1 and are returned
\* as a group without the fourth; the same four clients with the fourth in
\* second place would give no group
C24_Witness ==
    \E r \in DOMAIN runs :
        /\ ~IsRaised(runs[r].out)
        /\ runs[r].min_group_size = MinGroupSize
        /\ Len(C24_Eligible("P1")) = 4
        /\ Len(runs[r].out.returned) = 1
        /\ runs[r].out.returned[1].client_ids = <<"m1", "m2", "m3">>
        /\ C24_SimilarPairs({1, 2, 3, 4}) = {<<1, 2>>, <<1, 3>>, <<2, 3>>, <<1, 4>>}
        /\ detect_mirror_group(<<clients[1], clients[4], clients[2], clients[3]>>,
                               MinGroupSize, MinMirrorRatio) = Returned(<<>>)

(***************************************************************************)
(* State machine of calculate_trade_similarity: one call on two trades of  *)
(* the data model (volume > 0, timestamps that parse) and a positive       *)
(* window.                                                                 *)
(***************************************************************************)
MaxVolume == 5

MaxMinute == 3

MaxWindow == 2

InitSimilarity ==
    /\ clients = <<>>
    /\ partners = <<>>
    /\ now = 0
    /\ runs = <<>>

CalculateTradeSimilarity ==
    /\ runs = <<>>
    /\ \E trade1, trade2 \in {Trade(1, instrument, direction, volume, Naive(minute), 0) :
                                 instrument \in {"EUR/USD", "GBP/USD"}, direction \in {"BUY", "SELL"},
                                 volume \in 1..MaxVolume, minute \in 0..MaxMinute} :
          \E window \in 1..MaxWindow :
              runs' = <<[op |-> "calculate_trade_similarity",
                         trade1 |-> trade1, trade2 |-> trade2, window |-> window,
                         out |-> calculate_trade_similarity(trade1, trade2, window)]>>
    /\ UNCHANGED <<clients, partners, now>>

NextSimilarity == CalculateTradeSimilarity

SpecSimilarity == InitSimilarity /\ [][NextSimilarity]_vars

\* C20: calculate_trade_similarity returns a value in [0, 1] for two trades
\* with positive volumes and a positive window, and exactly 1 when the second
\* trade is an identical copy of the first.
C20_UnitRange ==
    \A r \in DOMAIN runs :
        /\ ~IsRaised(runs[r].out)
        /\ runs[r].out.den > 0
        /\ 0 <= runs[r].out.num /\ runs[r].out.num <= runs[r].out.den
        /\ runs[r].trade1 = runs[r].trade2 => runs[r].out.num = runs[r].out.den

\* a trade compared with its copy scores 1, at the smallest window
C20_Witness ==
    \E r \in DOMAIN runs :
        /\ runs[r].trade1 = runs[r].trade2
        /\ runs[r].window = 1
        /\ runs[r].out.num = runs[r].out.den

(***************************************************************************)
(* State machine of find_matching_trades: one call on two short lists of   *)
(* trades of one instrument and direction, whose volumes and minutes give  *)
(* similarities 1, 0.95 (twice, for two different trades of the second     *)
(* list), 0.875, 0.825 and exactly min_similarity 0.7.                     *)
(***************************************************************************)
MaxMatchTrades == 3

FindMatchingTrades ==
    /\ runs = <<>>
    /\ \E n1, n2 \in 0..MaxMatchTrades :
          \E trades1 \in [1..n1 -> {Trade(1, "EUR/USD", "BUY", 2, Naive(1), 0),
                                    Trade(2, "EUR/USD", "BUY", 1, Naive(0), 0),
                                    Trade(3, "EUR/USD", "BUY", 2, Naive(0), 0)}],
             trades2 \in [1..n2 -> {Trade(4, "EUR/USD", "BUY", 2, Naive(0), 0),
                                    Trade(5, "EUR/USD", "BUY", 2, Naive(2), 0),
                                    Trade(6, "EUR/USD", "BUY", 3, Naive(1), 0),
                                    Trade(7, "EUR/USD", "BUY", 2, Naive(1), 0)}] :
              runs' = <<[op |-> "find_matching_trades", trades1 |-> trades1, trades2 |-> trades2,
                         out |-> find_matching_trades(trades1, trades2, MirrorWindowMinutes,
                                                      MinSimilarity)]>>
    /\ UNCHANGED <<clients, partners, now>>

SpecMatching == InitSimilarity /\ [][FindMatchingTrades]_vars

\* similarity of trades1[i] and trades2[j] of a call, as a pair of integers
C22_Similarity(run, i, j) ==
    calculate_trade_similarity(run.trades1[i], run.trades2[j], MirrorWindowMinutes)

C22_Above(a, b) == a.num * b.den > b.num * a.den

\* the trades of the second list a trade of the first may still take: not used,
\* strictly above min_similarity
C22_Candidates(run, i, used) ==
    {j \in DOMAIN run.trades2 \ used : C22_Above(C22_Similarity(run, i, j), MinSimilarity)}

\* the lowest index among the candidates of highest similarity
C22_Pick(run, i, used) ==
    CHOOSE j \in C22_Candidates(run, i, used) :
        \A x \in C22_Candidates(run, i, used) :
            /\ ~C22_Above(C22_Similarity(run, i, x), C22_Similarity(run, i, j))
            /\ C22_Similarity(run, i, x).num = C22_Similarity(run, i, j).num => j <= x

RECURSIVE C22_Greedy(_, _, _, _)
\* the index pairs of the one-sided greedy matching, the first list in order
C22_Greedy(run, i, used, pairs) ==
    IF i > Len(run.trades1) THEN pairs
    ELSE IF C22_Candidates(run, i, used) = {} THEN C22_Greedy(run, i + 1, used, pairs)
    ELSE C22_Greedy(run, i + 1, used \cup {C22_Pick(run, i, used)},
                    Append(pairs, <<i, C22_Pick(run, i, used)>>))

\* C22: find_matching_trades is the one-sided greedy matching: the trades of
\* the first list in order, each taking the unused trade of the second list of
\* highest similarity strictly above min_similarity, the lowest index on a tie;
\* no trade of either list is in two matches, so there are no more matches than
\* trades in the shorter list.
C22_GreedyMatching ==
    \A r \in DOMAIN runs :
        LET run == runs[r]
            pairs == C22_Greedy(run, 1, {}, <<>>)
            matches == run.out.returned
        IN  /\ ~IsRaised(run.out)
            /\ Len(matches) = Len(pairs)
            /\ \A k \in DOMAIN pairs :
                   /\ matches[k].trade1 = run.trades1[pairs[k][1]]
                   /\ matches[k].trade2 = run.trades2[pairs[k][2]]
                   /\ matches[k].similarity = C22_Similarity(run, pairs[k][1], pairs[k][2])
                   /\ C22_Above(matches[k].similarity, MinSimilarity)
            /\ \A k, m \in DOMAIN pairs :
                   k # m => pairs[k][1] # pairs[m][1] /\ pairs[k][2] # pairs[m][2]
            /\ Len(matches) <= Min(Len(run.trades1), Len(run.trades2))

\* the first trade is as similar to the first as to the second trade of the other
\* list and takes the first, the second takes the second, and the third is left
\* with a trade of exactly min_similarity and takes none
C22_Witness ==
    \E r \in DOMAIN runs :
        /\ Len(runs[r].trades1) = 3 /\ Len(runs[r].trades2) = 3
        /\ C22_Similarity(runs[r], 1, 1) = C22_Similarity(runs[r], 1, 2)
        /\ runs[r].trades2[1] # runs[r].trades2[2]
        /\ C22_Similarity(runs[r], 3, 3).num * MinSimilarity.den
              = MinSimilarity.num * C22_Similarity(runs[r], 3, 3).den
        /\ Len(runs[r].out.returned) = 2
        /\ runs[r].out.returned[1].trade2 = runs[r].trades2[1]
        /\ runs[r].out.returned[2].trade2 = runs[r].trades2[2]

C25_Silent == {"low_trading_volume", "very_low_volume_ratio", "low_volume_ratio",
               "significant_withdrawal"}

\* C25: for every client detect_bonus_abuse_pattern reports as suspicious the
\* evidence holds at least one flag-specific sentence: the fallback text is never
\* the evidence, since the flags without a sentence cannot bring a score below 50.
C25_NoFallback ==
    \A r \in DOMAIN runs :
        runs[r].op = "detect_bonus_abuse" /\ ~IsRaised(runs[r].out) =>
            \A k \in DOMAIN runs[r].out.suspicious_clients :
                LET entry == runs[r].out.suspicious_clients[k]
                IN  /\ entry.evidence_summary # <<>>
                    /\ \A x \in DOMAIN entry.evidence_summary :
                           entry.evidence_summary[x] # "Multiple low-quality indicators detected."
                    /\ \E f \in DOMAIN entry.flags : entry.flags[f] \notin C25_Silent

\* a reported client carries the three flags without a sentence, and its
\* evidence is the two sentences of its other flags
C25_Witness ==
    \E r \in DOMAIN runs :
        /\ runs[r].op = "detect_bonus_abuse"
        /\ ~IsRaised(runs[r].out)
        /\ \E k \in DOMAIN runs[r].out.suspicious_clients :
              /\ runs[r].out.suspicious_clients[k].flags =
                     <<"low_trading_volume", "very_low_volume_ratio", "significant_withdrawal",
                       "inactive_account", "minimal_deposit">>
              /\ runs[r].out.suspicious_clients[k].evidence_summary =
                     <<"Small initial deposit: $D.", "Account is now inactive.">>
        /\ \E i \in DOMAIN clients :
              /\ clients[i]["client_id"] = "s"
              /\ \A k \in DOMAIN runs[r].out.suspicious_clients :
                     runs[r].out.suspicious_clients[k].client_id # "s"

(***************************************************************************)
(* The three detectors as concurrent calls on one snapshot                 *)
(*                                                                         *)
(* runs holds one frame per call: its entry point (op), its position (pc   *)
(* and the index k of the next iteration of its outer loop, of n), the     *)
(* list its loop appends to (acc), the arguments it was given, and what it *)
(* has returned (out, <<>> while it runs).                                 *)
(***************************************************************************)

\* every mention of a client counted, the same client again too
involve_each_mention(involvement, partner, value, client) ==
    LET old == IF partner \in DOMAIN involvement THEN involvement[partner]
               ELSE [schemes |-> 0, total_value |-> 0, clients |-> {}]
    IN  (partner :> [schemes |-> old.schemes + 1,
                     total_value |-> old.total_value + value,
                     clients |-> old.clients \cup {<<client, old.schemes>>}]) @@ involvement

\* partner_involvement after a scheme named the partner with one of its clients:
\* the entry is created on first use (defaultdict), clients is a set
involve(involvement, partner, value, client) ==
    LET old == IF partner \in DOMAIN involvement THEN involvement[partner]
               ELSE [schemes |-> 0, total_value |-> 0, clients |-> {}]
    IN  (partner :> [schemes |-> old.schemes + 1,
                     total_value |-> old.total_value + value,
                     clients |-> old.clients \cup {client}]) @@ involvement

\* the report of analyze_partner_network over the schemes of detect_opposite_trading
network_report(schemes) ==
    IF IsRaised(schemes) THEN schemes
    ELSE LET found == schemes.returned
             RECURSIVE rollup(_, _)
             \* for scheme in schemes: partner_a, then partner_b
             rollup(k, involvement) ==
                 IF k > Len(found) THEN involvement
                 ELSE rollup(k + 1,
                             involve(involve(involvement, found[k].partner_a,
                                             found[k].estimated_fraud_value, found[k].client_a),
                                     found[k].partner_b,
                                     found[k].estimated_fraud_value, found[k].client_b))
             involvement == rollup(1, <<>>)
         IN  [total_schemes_detected |-> Len(found),
              total_estimated_fraud_value |->
                  Sum([k \in DOMAIN found |-> found[k].estimated_fraud_value]),
              \* the sets converted to counts
              partner_involvement |->
                  [p \in DOMAIN involvement |->
                      [schemes |-> involvement[p].schemes,
                       total_value |-> involvement[p].total_value,
                       clients |-> Cardinality(involvement[p].clients)]],
              schemes |-> found]

analyze_partner_network(ps, cs) == network_report(detect_opposite_trading(cs, Threshold))

\* the report of detect_mirror_trading over the groups of detect_mirror_group
mirror_report(groups) ==
    IF IsRaised(groups) THEN groups
    ELSE LET found == groups.returned
         IN  [total_groups_detected |-> Len(found),
              total_clients_involved |-> Sum([k \in DOMAIN found |-> found[k].group_size]),
              total_estimated_fraud_value |->
                  Sum([k \in DOMAIN found |-> found[k].estimated_fraud_value]),
              groups |-> found]

detect_mirror_trading(cs) == mirror_report(detect_mirror_group(cs, MinGroupSize, MinMirrorRatio))

\* the loop index of a call is that of another call
call_frame_shared(calls, w) == [calls[w] EXCEPT !.k = calls[1].k]

\* the locals of call w: every list, set and map a detector writes to is
\* created inside the call
call_frame(calls, w) == calls[w]

\* the findings list is the argument itself
arguments_aliased(given, found) == IF IsRaised(found) THEN given ELSE found.returned

\* the argument list after an iteration that left the call with the findings
\* found: the statements that write in place (append, add, update, extend, sort,
\* item assignment) all target objects the call created
arguments_after(given, found) == given

\* a call abandoned between two iterations hands back what it has so far
abandon_partial(frame) == frame.acc

\* a call abandoned between two iterations: its locals are dropped with it,
\* the one return statement of a detector follows its loops
abandon(frame) == Raise("CancelledError")

InitWorkers ==
    /\ clients \in
          \* three schemes: a with b, c with b, a with d
          {<<TradingClient("a", "Emma Jones", "P1", <<Trade(1, "EUR/USD", "BUY", 1, Naive(0), 1)>>),
             TradingClient("b", "Ali Khan", "P2", <<Trade(1, "EUR/USD", "SELL", 1, Naive(2), -1)>>),
             TradingClient("c", "Wei Kim", "P1", <<Trade(1, "EUR/USD", "BUY", 1, Naive(4), 3)>>),
             TradingClient("d", "Raj Patel", "P3", <<Trade(1, "EUR/USD", "SELL", 1, Naive(0), -1)>>)>>}
          \cup
          {<<TradingClient("a", "Emma Jones", "P1", <<Trade(1, "EUR/USD", "BUY", 1, Naive(0), 1)>>),
             \* the other side of a's trade, by a client that withdrew early
             [TradingClient("b", "Ali Khan", "P2", <<Trade(1, "EUR/USD", "SELL", 1, Naive(2), -1)>>)
                 EXCEPT !.is_active = FALSE, !.current_balance = 20]
                 @@ ("withdrawal_date" :> Naive(4)),
             TradingClient(MirrorIds[1], "James Smith", "P1", SlotTrades(MinTrades, 1..10, 2, 0, 1)),
             TradingClient(MirrorIds[2], "James Smith", "P1", SlotTrades(MinTrades, 1..10, 2, 0, 2)),
             TradingClient(MirrorIds[3], "James Smith", "P1", third)>> :
           third \in {SlotTrades(MinTrades, 1..10, 2, 0, 3),
                      SlotTrades(MinTrades - 1, 1..10, 2, 0, 3),
                      [SlotTrades(MinTrades, 1..10, 2, 0, 3) EXCEPT ![MinTrades].timestamp = BadDate]}}
    /\ partners = Partners
    /\ now = 0
    /\ runs = <<>>

\* a detector is called: the statements before its outer loop
StartCall ==
    \E op \in {"analyze_partner_network", "detect_mirror_trading", "detect_bonus_abuse"} :
        /\ \A w \in DOMAIN runs : runs[w].op # op
        /\ LET active == SelectSeq(clients, LAMBDA c : Len(client_trades(c)) >= MinTrades)
               grouped == IF op = "detect_mirror_trading" THEN active ELSE clients
               acc == IF op # "detect_bonus_abuse"
                         /\ \E i \in DOMAIN grouped : ~Has(grouped[i], "referred_by")
                      THEN Raise("KeyError") ELSE Returned(<<>>)
               n == IF IsRaised(acc) THEN 0
                    ELSE IF op = "analyze_partner_network" THEN Len(comparison_order(clients))
                    ELSE IF op = "detect_mirror_trading" THEN Len(partner_order(active, 1, <<>>))
                    ELSE Len(clients)
           IN  runs' = Append(runs, [op |-> op, pc |-> "loop", k |-> 1, n |-> n, acc |-> acc,
                                     pattern |-> <<>>, given |-> <<clients, partners>>,
                                     out |-> <<>>])
        /\ UNCHANGED <<clients, partners, now>>

\* one iteration of the outer loop of a call
LoopStep ==
    \E w \in DOMAIN runs :
        LET frame == call_frame(runs, w)
            k == frame.k
            active == SelectSeq(clients, LAMBDA c : Len(client_trades(c)) >= MinTrades)
            acc == IF frame.pc = "partner_loop"
                   THEN partner_loop(SubSeq(partners, 1, k), clients, now, k, frame.acc)
                   ELSE IF frame.op = "analyze_partner_network"
                   THEN opposite_loop(clients, SubSeq(comparison_order(clients), 1, k),
                                      Threshold, k, frame.acc)
                   ELSE IF frame.op = "detect_mirror_trading"
                   THEN mirror_loop(active, SubSeq(partner_order(active, 1, <<>>), 1, k),
                                    MinGroupSize, MinMirrorRatio, k, frame.acc)
                   ELSE bonus_pattern_loop(SubSeq(clients, 1, k), now, k, frame.acc)
        IN  /\ runs[w].pc \in {"loop", "partner_loop"}
            /\ ~IsRaised(frame.acc)
            /\ k <= frame.n
            /\ runs' = [runs EXCEPT ![w].k = k + 1, ![w].acc = acc]
            /\ clients' = arguments_after(clients, acc)
            /\ UNCHANGED <<partners, now>>

\* detect_bonus_abuse between its two loops: detect_bonus_abuse_pattern has
\* returned, analyze_partner_referral_quality groups the clients
NextLoop ==
    \E w \in DOMAIN runs :
        /\ runs[w].op = "detect_bonus_abuse"
        /\ runs[w].pc = "loop"
        /\ ~IsRaised(runs[w].acc)
        /\ runs[w].k > runs[w].n
        /\ runs' = [runs EXCEPT
                       ![w].pc = "partner_loop",
                       ![w].k = 1,
                       ![w].n = Len(partners),
                       ![w].pattern = sort_by_quality(runs[w].acc),
                       ![w].acc = IF \E i \in DOMAIN clients : ~Has(clients[i], "referred_by")
                                  THEN Raise("KeyError") ELSE Returned(<<>>)]
        /\ UNCHANGED <<clients, partners, now>>

\* the statements after the last loop of a call: the sort and the report
Return ==
    \E w \in DOMAIN runs :
        LET frame == runs[w]
        IN  /\ frame.pc \in {"loop", "partner_loop"}
            /\ IsRaised(frame.acc) \/ frame.k > frame.n
            /\ frame.op = "detect_bonus_abuse" /\ frame.pc = "loop" => IsRaised(frame.acc)
            /\ runs' = [runs EXCEPT
                           ![w].pc = "returned",
                           ![w].out =
                               IF frame.op = "analyze_partner_network"
                               THEN network_report(sort_by_confidence(frame.acc))
                               ELSE IF frame.op = "detect_mirror_trading"
                               THEN mirror_report(sort_by_confidence(frame.acc))
                               ELSE IF frame.pc = "loop" THEN frame.acc
                               ELSE bonus_report(frame.pattern, sort_by_ratio(frame.acc))]
            /\ UNCHANGED <<clients, partners, now>>

\* a running call is cancelled or timed out between two iterations
Cancel ==
    \E w \in DOMAIN runs :
        /\ runs[w].pc \in {"loop", "partner_loop"}
        /\ runs' = [runs EXCEPT ![w].pc = "cancelled", ![w].out = abandon(runs[w])]
        /\ UNCHANGED <<clients, partners, now>>

NextWorkers == StartCall \/ LoopStep \/ NextLoop \/ Return \/ Cancel

SpecWorkers == InitWorkers /\ [][NextWorkers]_vars

\* the findings of a report that name partner p
C21_Naming(found, p) == {k \in DOMAIN found : p \in {found[k].partner_a, found[k].partner_b}}

\* C21: partner_involvement of analyze_partner_network has an entry exactly for
\* the partner ids that are partner_a or partner_b of a finding; schemes is the
\* number of findings naming the partner, total_value the sum of their
\* estimated_fraud_value, clients the number of distinct client ids of the
\* partner in them; total_schemes_detected is the number of findings.
C21_Rollup ==
    \A w \in DOMAIN runs :
        (runs[w].op = "analyze_partner_network" /\ runs[w].pc = "returned"
            /\ ~IsRaised(runs[w].out)) =>
            LET out == runs[w].out
                found == out.schemes
            IN  /\ found = detect_opposite_trading(clients, Threshold).returned
                /\ out.total_schemes_detected = Len(found)
                /\ DOMAIN out.partner_involvement =
                       {found[k].partner_a : k \in DOMAIN found}
                           \cup {found[k].partner_b : k \in DOMAIN found}
                /\ \A p \in DOMAIN out.partner_involvement :
                       /\ out.partner_involvement[p].schemes = Cardinality(C21_Naming(found, p))
                       /\ out.partner_involvement[p].total_value =
                              Sum([k \in DOMAIN found |->
                                      IF k \in C21_Naming(found, p)
                                      THEN found[k].estimated_fraud_value ELSE 0])
                       /\ out.partner_involvement[p].clients =
                              Cardinality({found[k].client_a : k \in {x \in DOMAIN found : found[x].partner_a = p}}
                                  \cup {found[k].client_b : k \in {x \in DOMAIN found : found[x].partner_b = p}})

\* three findings: P1 is named by all three through two clients, P2 by two
\* through one client, P3 by one
C21_Witness ==
    \E w \in DOMAIN runs :
        /\ runs[w].op = "analyze_partner_network"
        /\ runs[w].pc = "returned"
        /\ ~IsRaised(runs[w].out)
        /\ runs[w].out.total_schemes_detected = 3
        /\ runs[w].out.partner_involvement =
              ("P1" :> [schemes |-> 3, total_value |-> 400, clients |-> 2])
              @@ ("P2" :> [schemes |-> 2, total_value |-> 300, clients |-> 1])
              @@ ("P3" :> [schemes |-> 1, total_value |-> 100, clients |-> 1])

\* what the entry point of a call returns when it is the only call
C18_Alone(op) ==
    IF op = "analyze_partner_network" THEN analyze_partner_network(partners, clients)
    ELSE IF op = "detect_mirror_trading" THEN detect_mirror_trading(clients)
    ELSE detect_bonus_abuse(clients, partners, now)

\* C18: the three detectors running concurrently on one snapshot, their steps
\* interleaved in any order, each return what they return when run alone.
C18_SameAsAlone ==
    \A w \in DOMAIN runs :
        runs[w].pc = "returned" => runs[w].out = C18_Alone(runs[w].op)

\* the three calls have returned and two of them have findings
C18_Witness ==
    /\ Len(runs) = 3
    /\ \A w \in DOMAIN runs : runs[w].pc = "returned" /\ ~IsRaised(runs[w].out)
    /\ \E w \in DOMAIN runs :
          runs[w].op = "detect_mirror_trading" /\ runs[w].out.total_groups_detected = 1
    /\ \E w \in DOMAIN runs :
          runs[w].op = "analyze_partner_network" /\ runs[w].out.total_schemes_detected = 1

\* C19: a detector run cancelled or timed out at an iteration boundary of its
\* outer loop returns no findings at all: never a partial finding list nor a
\* partial fraud-value total; the only reports are those of calls whose loops
\* ran to their end.
C19_AllOrNothing ==
    \A w \in DOMAIN runs :
        /\ runs[w].pc = "cancelled" => IsRaised(runs[w].out)
        /\ runs[w].pc \in {"loop", "partner_loop"} => runs[w].out = <<>>
        /\ runs[w].pc = "returned" /\ ~IsRaised(runs[w].out) => runs[w].k > runs[w].n

\* a call was cancelled in the middle of its loop when it had found something
C19_Witness ==
    \E w \in DOMAIN runs :
        /\ runs[w].pc = "cancelled"
        /\ runs[w].k \in 2..runs[w].n
        /\ ~IsRaised(runs[w].acc)
        /\ runs[w].acc.returned # <<>>
        /\ IsRaised(runs[w].out)

====
